---------------------------- MODULE Spec2Model ----------------------------
(***************************************************************************)
(* The operation controller of pi-backup-tool (src/src/index.js, App).     *)
(*                                                                         *)
(* The React state of App (mode, state, source, destination, error, logs,  *)
(* metrics) is the state of the machine.  Every child process spawned by   *)
(* the controller is a record in procs that carries what its event         *)
(* handlers close over (the source and destination of the render that      *)
(* started the run, lastError, unmountError).  One action per event        *)
(* handler and per user selection.  exit() unmounts App: the state setters  *)
(* have no effect from then on, and the machine stops there.                *)
(*                                                                         *)
(* JavaScript strings are sequences of one-character strings, so that      *)
(* trim(), match(), endsWith() and template literals are computed.         *)
(***************************************************************************)
EXTENDS Integers, Sequences, FiniteSets, TLC

VARIABLES
    app,             \* "mounted" | "exited" (exit() was called) | "crashed"
    platform,        \* process.platform: "darwin" | "linux"
    toolPresent,     \* what existsSync(pishrinkPath) returned last
    disks,           \* useState([]) disks: sequence of item values
    mode,            \* useState(null) mode
    state,           \* useState(STATES.MAIN_MENU) state
    source,          \* useState('') source
    destination,     \* useState('') destination
    bytesWritten,    \* useState('0') bytesWritten
    speed,           \* useState('0') speed
    error,           \* useState('') error
    logs,            \* useState([]) logs
    shrinkProgress,  \* useState('') shrinkProgress
    manualSource,    \* useState('') manualSource
    showManualInput, \* useState(false) showManualInput
    procs,           \* child processes whose handlers may still be called
    runs,            \* number of runs started so far
    spawned,         \* number of child processes spawned so far
    delivered,       \* number of output chunks delivered so far
    lastEvent,       \* the event handled last
    trail            \* the states the handlers of the runs have set, in order

vars == <<app, platform, toolPresent, disks, mode, state, source, destination,
          bytesWritten, speed, error, logs, shrinkProgress, manualSource,
          showManualInput, procs, runs, spawned, delivered, lastEvent,
          trail>>

-----------------------------------------------------------------------------
(* Bounds of the model *)

\* runs started in one behaviour
MaxRuns == 1

\* child processes spawned in one behaviour
MaxProcs == 5

\* stdout/stderr chunks delivered in one behaviour of the application
MaxChunks == 1

\* stdout/stderr chunks delivered in one behaviour of the copy stage
MaxCopyChunks == 2

-----------------------------------------------------------------------------
(* const MODES, const STATES (index.js:12-29) *)

MODES == [BACKUP |-> "backup", RESTORE |-> "restore"]

STATES == [MAIN_MENU |-> "main_menu", SELECT_SOURCE |-> "select_source",
           SELECT_DEST |-> "select_dest", CONFIRM |-> "confirm",
           VALIDATING |-> "validating", BACKING_UP |-> "backing_up",
           SHRINKING |-> "shrinking", RESTORING |-> "restoring",
           COMPLETE |-> "complete", ERROR |-> "error"]

\* mode === null
NoMode == "null"

-----------------------------------------------------------------------------
(* String literals of the source *)

\* 'sudo authentication failed. Please run with sudo access.' (index.js:294, 504)
ErrSudoAuth ==
    <<"s", "u", "d", "o", " ", "a", "u", "t", "h", "e", "n", "t", "i", "c",
      "a", "t", "i", "o", "n", " ", "f", "a", "i", "l", "e", "d", ".", " ",
      "P", "l", "e", "a", "s", "e", " ", "r", "u", "n", " ", "w", "i", "t",
      "h", " ", "s", "u", "d", "o", " ", "a", "c", "c", "e", "s", "s", ".">>

\* 'sudo failed: ' (index.js:340, 537)
ErrSudoFailed ==
    <<"s", "u", "d", "o", " ", "f", "a", "i", "l", "e", "d", ":", " ">>

\* 'Source device not found: ' (index.js:351)
ErrSourceNotFound ==
    <<"S", "o", "u", "r", "c", "e", " ", "d", "e", "v", "i", "c", "e", " ",
      "n", "o", "t", " ", "f", "o", "u", "n", "d", ":", " ">>

\* 'Cannot access source: ' (index.js:358)
ErrCannotAccess ==
    <<"C", "a", "n", "n", "o", "t", " ", "a", "c", "c", "e", "s", "s", " ",
      "s", "o", "u", "r", "c", "e", ":", " ">>

\* 'dd failed: ' (index.js:418)
ErrDdFailed ==
    <<"d", "d", " ", "f", "a", "i", "l", "e", "d", ":", " ">>

\* 'exit code ' (index.js:417, 604)
ErrExitCode ==
    <<"e", "x", "i", "t", " ", "c", "o", "d", "e", " ">>

\* 'Failed to start dd: ' (index.js:424)
ErrStartDd ==
    <<"F", "a", "i", "l", "e", "d", " ", "t", "o", " ", "s", "t", "a", "r",
      "t", " ", "d", "d", ":", " ">>

\* 'Restore failed: ' (index.js:605)
ErrRestoreFailed ==
    <<"R", "e", "s", "t", "o", "r", "e", " ", "f", "a", "i", "l", "e", "d",
      ":", " ">>

\* 'Failed to start restore: ' (index.js:611)
ErrStartRestore ==
    <<"F", "a", "i", "l", "e", "d", " ", "t", "o", " ", "s", "t", "a", "r",
      "t", " ", "r", "e", "s", "t", "o", "r", "e", ":", " ">>

\* 'Validating sudo access...' (index.js:285, 496)
LogValidating ==
    <<"V", "a", "l", "i", "d", "a", "t", "i", "n", "g", " ", "s", "u", "d",
      "o", " ", "a", "c", "c", "e", "s", "s", ".", ".", ".">>

\* 'Unmounting ' (index.js:304, 513)
LogUnmounting ==
    <<"U", "n", "m", "o", "u", "n", "t", "i", "n", "g", " ">>

\* '...' (index.js:304, 513)
LogDots ==
    <<".", ".", ".">>

\* 'Unmount warning: ' (index.js:322)
LogUnmountWarning ==
    <<"U", "n", "m", "o", "u", "n", "t", " ", "w", "a", "r", "n", "i", "n",
      "g", ":", " ">>

\* 'disk may already be unmounted' (index.js:322)
LogMayBeUnmounted ==
    <<"d", "i", "s", "k", " ", "m", "a", "y", " ", "a", "l", "r", "e", "a",
      "d", "y", " ", "b", "e", " ", "u", "n", "m", "o", "u", "n", "t", "e",
      "d">>

\* 'Unmount warning: disk may already be unmounted' (index.js:521)
LogUnmountWarningRestore ==
    <<"U", "n", "m", "o", "u", "n", "t", " ", "w", "a", "r", "n", "i", "n",
      "g", ":", " ", "d", "i", "s", "k", " ", "m", "a", "y", " ", "a", "l",
      "r", "e", "a", "d", "y", " ", "b", "e", " ", "u", "n", "m", "o", "u",
      "n", "t", "e", "d">>

\* 'Disk unmounted successfully' (index.js:324, 523)
LogUnmounted ==
    <<"D", "i", "s", "k", " ", "u", "n", "m", "o", "u", "n", "t", "e", "d",
      " ", "s", "u", "c", "c", "e", "s", "s", "f", "u", "l", "l", "y">>

\* 'Unmount skipped: ' (index.js:330)
LogUnmountSkipped ==
    <<"U", "n", "m", "o", "u", "n", "t", " ", "s", "k", "i", "p", "p", "e",
      "d", ":", " ">>

\* 'Checking source device...' (index.js:347)
LogChecking ==
    <<"C", "h", "e", "c", "k", "i", "n", "g", " ", "s", "o", "u", "r", "c",
      "e", " ", "d", "e", "v", "i", "c", "e", ".", ".", ".">>

\* 'Starting backup from ' (index.js:366)
LogStartingBackup ==
    <<"S", "t", "a", "r", "t", "i", "n", "g", " ", "b", "a", "c", "k", "u",
      "p", " ", "f", "r", "o", "m", " ">>

\* ' to ' (index.js:366, 545)
LogTo ==
    <<" ", "t", "o", " ">>

\* 'Backup complete! Starting pishrink...' (index.js:414)
LogBackupComplete ==
    <<"B", "a", "c", "k", "u", "p", " ", "c", "o", "m", "p", "l", "e", "t",
      "e", "!", " ", "S", "t", "a", "r", "t", "i", "n", "g", " ", "p", "i",
      "s", "h", "r", "i", "n", "k", ".", ".", ".">>

\* 'Running pishrink to compress image...' (index.js:437)
LogRunningPishrink ==
    <<"R", "u", "n", "n", "i", "n", "g", " ", "p", "i", "s", "h", "r", "i",
      "n", "k", " ", "t", "o", " ", "c", "o", "m", "p", "r", "e", "s", "s",
      " ", "i", "m", "a", "g", "e", ".", ".", ".">>

\* 'Shrink complete!' (index.js:457)
LogShrinkComplete ==
    <<"S", "h", "r", "i", "n", "k", " ", "c", "o", "m", "p", "l", "e", "t",
      "e", "!">>

\* 'pishrink exited with code ' (index.js:461)
LogPishrinkExited ==
    <<"p", "i", "s", "h", "r", "i", "n", "k", " ", "e", "x", "i", "t", "e",
      "d", " ", "w", "i", "t", "h", " ", "c", "o", "d", "e", " ">>

\* ' - image saved without shrinking' (index.js:461, 467)
LogSavedWithout ==
    <<" ", "-", " ", "i", "m", "a", "g", "e", " ", "s", "a", "v", "e", "d",
      " ", "w", "i", "t", "h", "o", "u", "t", " ", "s", "h", "r", "i", "n",
      "k", "i", "n", "g">>

\* 'pishrink not available: ' (index.js:467)
LogPishrinkNotAvailable ==
    <<"p", "i", "s", "h", "r", "i", "n", "k", " ", "n", "o", "t", " ", "a",
      "v", "a", "i", "l", "a", "b", "l", "e", ":", " ">>

\* 'pishrink not found, downloading...' (index.js:474)
LogNotFoundDownloading ==
    <<"p", "i", "s", "h", "r", "i", "n", "k", " ", "n", "o", "t", " ", "f",
      "o", "u", "n", "d", ",", " ", "d", "o", "w", "n", "l", "o", "a", "d",
      "i", "n", "g", ".", ".", ".">>

\* 'Could not download pishrink - image saved without shrinking' (index.js:484)
LogCouldNotDownload ==
    <<"C", "o", "u", "l", "d", " ", "n", "o", "t", " ", "d", "o", "w", "n",
      "l", "o", "a", "d", " ", "p", "i", "s", "h", "r", "i", "n", "k", " ",
      "-", " ", "i", "m", "a", "g", "e", " ", "s", "a", "v", "e", "d", " ",
      "w", "i", "t", "h", "o", "u", "t", " ", "s", "h", "r", "i", "n", "k",
      "i", "n", "g">>

\* 'Restoring ' (index.js:545)
LogRestoring ==
    <<"R", "e", "s", "t", "o", "r", "i", "n", "g", " ">>

\* 'Decompressing and writing image...' (index.js:555)
LogDecompressing ==
    <<"D", "e", "c", "o", "m", "p", "r", "e", "s", "s", "i", "n", "g", " ",
      "a", "n", "d", " ", "w", "r", "i", "t", "i", "n", "g", " ", "i", "m",
      "a", "g", "e", ".", ".", ".">>

\* 'Restore complete!' (index.js:601)
LogRestoreComplete ==
    <<"R", "e", "s", "t", "o", "r", "e", " ", "c", "o", "m", "p", "l", "e",
      "t", "e", "!">>

\* 'authentication failed'
TxtAuthFailed ==
    <<"a", "u", "t", "h", "e", "n", "t", "i", "c", "a", "t", "i", "o", "n",
      " ", "f", "a", "i", "l", "e", "d">>

\* 'bytes' (index.js:383, 389)
TxtBytes ==
    <<"b", "y", "t", "e", "s">>

\* 'copied' (index.js:383)
TxtCopied ==
    <<"c", "o", "p", "i", "e", "d">>

\* 'records in' (index.js:383)
TxtRecordsIn ==
    <<"r", "e", "c", "o", "r", "d", "s", " ", "i", "n">>

\* 'records out' (index.js:383)
TxtRecordsOut ==
    <<"r", "e", "c", "o", "r", "d", "s", " ", "o", "u", "t">>

\* 'disk' (index.js:301)
TxtDisk ==
    <<"d", "i", "s", "k">>

\* 'B/s' (index.js:390)
TxtBperS ==
    <<"B", "/", "s">>

\* ' MB' (index.js:395)
TxtMB ==
    <<" ", "M", "B">>

\* 'manual' (index.js:267)
TxtManual ==
    <<"m", "a", "n", "u", "a", "l">>

\* '/dev/r' (index.js:52)
TxtDevR ==
    <<"/", "d", "e", "v", "/", "r">>

\* '/dev/' (index.js:72)
TxtDev ==
    <<"/", "d", "e", "v", "/">>

\* '.gz' (index.js:550)
TxtGz ==
    <<".", "g", "z">>

\* 'spawn sudo ENOENT'
SpawnSudoENOENT ==
    <<"s", "p", "a", "w", "n", " ", "s", "u", "d", "o", " ", "E", "N", "O",
      "E", "N", "T">>

\* 'spawn diskutil ENOENT'
SpawnDiskutilENOENT ==
    <<"s", "p", "a", "w", "n", " ", "d", "i", "s", "k", "u", "t", "i", "l",
      " ", "E", "N", "O", "E", "N", "T">>

-----------------------------------------------------------------------------
(* JavaScript string operations on character sequences *)

Digits == {"0", "1", "2", "3", "4", "5", "6", "7", "8", "9"}

\* A text is a sequence of characters, one element each. A character that a
\* string of this module cannot hold is the element that names its code
\* point: "U+2028" is the one character U+2028.

\* White space removed by String.prototype.trim and matched by \s: tab, line
\* feed, vertical tab, form feed, carriage return, space, no-break space,
\* byte order mark, the line and paragraph separators and the space
\* separators of Unicode
WhiteSpace ==
    {"\t", "\n", "U+000B", "\f", "\r", " ", "U+00A0", "U+1680", "U+2000",
     "U+2001", "U+2002", "U+2003", "U+2004", "U+2005", "U+2006", "U+2007",
     "U+2008", "U+2009", "U+200A", "U+2028", "U+2029", "U+202F", "U+205F",
     "U+3000", "U+FEFF"}

\* Line terminators, which '.' of a pattern without the s flag does not
\* match: line feed, carriage return, line separator, paragraph separator
LineTerminators == {"\n", "\r", "U+2028", "U+2029"}

Min(a, b) == IF a < b THEN a ELSE b

\* s.substring(a, b), 0-based, end exclusive
Substring(s, a, b) == SubSeq(s, a + 1, Min(b, Len(s)))

\* pat occurs in s starting at 1-based position i
MatchAt(s, pat, i) ==
    /\ i >= 1
    /\ i + Len(pat) - 1 <= Len(s)
    /\ SubSeq(s, i, i + Len(pat) - 1) = pat

\* s.includes(pat)
Includes(s, pat) == \E i \in 1..(Len(s) + 1) : MatchAt(s, pat, i)

\* s.endsWith(pat)
EndsWith(s, pat) == MatchAt(s, pat, Len(s) - Len(pat) + 1)

\* s.trim()
Trim(s) ==
    LET keep == {i \in 1..Len(s) : s[i] \notin WhiteSpace} IN
    IF keep = {} THEN <<>>
    ELSE LET lo == CHOOSE i \in keep : \A j \in keep : i <= j
             hi == CHOOSE i \in keep : \A j \in keep : j <= i
         IN  SubSeq(s, lo, hi)

\* Last position of the maximal run of characters of cs that starts at i
\* (i - 1 when s[i] is not in cs)
RunEnd(s, cs, i) ==
    LET stops == {j \in i..Len(s) : s[j] \notin cs} IN
    IF stops = {} THEN Len(s)
    ELSE (CHOOSE j \in stops : \A k \in stops : j <= k) - 1

DigitValue(c) ==
    CASE c = "0" -> 0 [] c = "1" -> 1 [] c = "2" -> 2 [] c = "3" -> 3
      [] c = "4" -> 4 [] c = "5" -> 5 [] c = "6" -> 6 [] c = "7" -> 7
      [] c = "8" -> 8 [] c = "9" -> 9

DigitChar(d) == <<"0", "1", "2", "3", "4", "5", "6", "7", "8", "9">>[d + 1]

\* parseInt of a string of decimal digits
RECURSIVE ParseInt(_)
ParseInt(s) ==
    IF s = <<>> THEN 0
    ELSE 10 * ParseInt(SubSeq(s, 1, Len(s) - 1)) + DigitValue(s[Len(s)])

\* String(n) for a natural number n
RECURSIVE NatToString(_)
NatToString(n) ==
    IF n < 10 THEN <<DigitChar(n)>>
    ELSE NatToString(n \div 10) \o <<DigitChar(n % 10)>>

\* `${n}` for an integer n
IntToString(n) == IF n < 0 THEN <<"-">> \o NatToString(0 - n) ELSE NatToString(n)

-----------------------------------------------------------------------------
(* Interpretation of the copy tool's stderr (runBackup / runRestore) *)

\* output.match(/bytes.*copied/): '.' does not match a line terminator
MatchBytesCopied(output) ==
    \E i \in 1..Len(output) : \E j \in 1..Len(output) :
        /\ MatchAt(output, TxtBytes, i)
        /\ MatchAt(output, TxtCopied, j)
        /\ j >= i + Len(TxtBytes)
        /\ \A k \in (i + Len(TxtBytes))..(j - 1) : output[k] \notin LineTerminators

\* output.match(/records (in|out)/)
MatchRecords(output) ==
    Includes(output, TxtRecordsIn) \/ Includes(output, TxtRecordsOut)

\* A variant of IsErrorOutput that knows the bytes-copied pattern only
IsErrorOutputBytesOnly(output) == ~MatchBytesCopied(output)

\* The guard of "lastError = output.trim()" (index.js:383, 574)
IsErrorOutput(output) == ~MatchBytesCopied(output) /\ ~MatchRecords(output)

\* lastError after the stderr handler has seen output
NextLastError(lastError, output) ==
    IF IsErrorOutput(output) THEN Trim(output) ELSE lastError

\* output.match(/(\d+)\s+bytes/): group 1 of the leftmost match, <<>> for null
BytesMatch(output) ==
    LET starts == {i \in 1..Len(output) :
                     /\ output[i] \in Digits
                     /\ LET e == RunEnd(output, Digits, i)
                            w == RunEnd(output, WhiteSpace, e + 1)
                        IN  w >= e + 1 /\ MatchAt(output, TxtBytes, w + 1)}
    IN  IF starts = {} THEN <<>>
        ELSE LET i == CHOOSE x \in starts : \A y \in starts : x <= y
             IN  SubSeq(output, i, RunEnd(output, Digits, i))

\* (bytes / 1024 / 1024).toFixed(1): tenths rounded half up
MbText(bytes) ==
    LET tenths == (bytes \div 1048576) * 10
                    + ((bytes % 1048576) * 20 + 1048576) \div 2097152
    IN  NatToString(tenths \div 10) \o <<".">> \o <<DigitChar(tenths % 10)>>

\* bytesWritten after the stderr handler has seen output
NextBytesWritten(prev, output) ==
    IF BytesMatch(output) # <<>>
    THEN MbText(ParseInt(BytesMatch(output))) \o TxtMB
    ELSE prev

\* output.match(/([\d.]+)\s*([MGK]?B\/s)/): <<group 1, group 2>> of the
\* leftmost match, <<>> for null
SpeedMatch(output) ==
    LET numch == Digits \cup {"."}
        unitAt(i) ==
            LET e == RunEnd(output, numch, i)
                w == RunEnd(output, WhiteSpace, e + 1)
            IN  IF /\ w + 1 <= Len(output)
                   /\ output[w + 1] \in {"M", "G", "K"}
                   /\ MatchAt(output, TxtBperS, w + 2)
                THEN SubSeq(output, w + 1, w + 1 + Len(TxtBperS))
                ELSE IF MatchAt(output, TxtBperS, w + 1)
                     THEN TxtBperS
                     ELSE <<>>
        starts == {i \in 1..Len(output) :
                     output[i] \in numch /\ unitAt(i) # <<>>}
    IN  IF starts = {} THEN <<>>
        ELSE LET i == CHOOSE x \in starts : \A y \in starts : x <= y
             IN  <<SubSeq(output, i, RunEnd(output, numch, i)), unitAt(i)>>

\* A variant of NextSpeed that keeps the unit only
NextSpeedUnitOnly(prev, output) ==
    IF SpeedMatch(output) # <<>>
    THEN SpeedMatch(output)[2]
    ELSE prev

\* speed after the stderr handler has seen output
NextSpeed(prev, output) ==
    IF SpeedMatch(output) # <<>>
    THEN SpeedMatch(output)[1] \o <<" ">> \o SpeedMatch(output)[2]
    ELSE prev

\* path.match(/r?(disk\d+)/): group 1 of the leftmost match, <<>> for null
DiskMatch(path) ==
    LET starts == {i \in 1..Len(path) :
                     /\ MatchAt(path, TxtDisk, i)
                     /\ i + Len(TxtDisk) <= Len(path)
                     /\ path[i + Len(TxtDisk)] \in Digits}
    IN  IF starts = {} THEN <<>>
        ELSE LET i == CHOOSE x \in starts : \A y \in starts : x <= y
             IN  SubSeq(path, i, RunEnd(path, Digits, i + Len(TxtDisk)))

\* source.endsWith('.gz') (index.js:550)
IsGzipped(path) == EndsWith(path, TxtGz)

-----------------------------------------------------------------------------
(* The environment: output chunks, exit codes, devices and files *)

\* an error line of the copy tool: 'dd: busy\n'
ChunkError ==
    <<"d", "d", ":", " ", "b", "u", "s", "y", "\n">>

\* a progress line of the copy tool: '2097152 bytes copied, 1 s, 2.1 MB/s\n'
ChunkProgress ==
    <<"2", "0", "9", "7", "1", "5", "2", " ", "b", "y", "t", "e", "s", " ",
      "c", "o", "p", "i", "e", "d", ",", " ", "1", " ", "s", ",", " ", "2",
      ".", "1", " ", "M", "B", "/", "s", "\n">>

\* a record count line of the copy tool: '1+0 records in\n'
ChunkRecords ==
    <<"1", "+", "0", " ", "r", "e", "c", "o", "r", "d", "s", " ", "i", "n",
      "\n">>

\* an error line and a record count line merged into one chunk: 'dd: busy\n1+0 records out\n'
ChunkMerged ==
    <<"d", "d", ":", " ", "b", "u", "s", "y", "\n", "1", "+", "0", " ", "r",
      "e", "c", "o", "r", "d", "s", " ", "o", "u", "t", "\n">>

\* the second half of a progress line split over two chunks: 'ied, 1 s\n'
ChunkPartial ==
    <<"i", "e", "d", ",", " ", "1", " ", "s", "\n">>

\* the end of a progress line split inside its byte count: '152 bytes copied, 1 s, 2.1 MB/s\n'
ChunkTail ==
    <<"1", "5", "2", " ", "b", "y", "t", "e", "s", " ", "c", "o", "p", "i",
      "e", "d", ",", " ", "1", " ", "s", ",", " ", "2", ".", "1", " ", "M",
      "B", "/", "s", "\n">>

\* an error line surrounded by white space: '\f dd: busy \n\u00a0'
ChunkPadded ==
    <<"\f", " ", "d", "d", ":", " ", "b", "u", "s", "y", " ", "\n", "U+00A0">>

\* a progress line whose blanks are a form feed and whose middle holds a
\* line separator: '12\fbytes\u2028copied, 1 s, 5\fMB/s\n'
ChunkSeparated ==
    <<"1", "2", "\f", "b", "y", "t", "e", "s", "U+2028", "c", "o", "p", "i",
      "e", "d", ",", " ", "1", " ", "s", ",", " ", "5", "\f", "M", "B", "/",
      "s", "\n">>

\* a chunk on another stream: ' done\n'
ChunkOut ==
    <<" ", "d", "o", "n", "e", "\n">>

\* a disk identifier of diskutil list: 'disk9'
Disk9 ==
    <<"d", "i", "s", "k", "9">>

\* a device name of lsblk: 'sdb'
Sdb ==
    <<"s", "d", "b">>

\* a device name of lsblk: 'loop0'
Loop0 ==
    <<"l", "o", "o", "p", "0">>

\* an image file: '/b.img'
PathImg ==
    <<"/", "b", ".", "i", "m", "g">>

\* a compressed image file: '/b.img.gz'
PathImgGz ==
    <<"/", "b", ".", "i", "m", "g", ".", "g", "z">>

\* a compressed image file named in upper case: '/B.IMG.GZ'
PathImgGzUpper ==
    <<"/", "B", ".", "I", "M", "G", ".", "G", "Z">>

\* another file: '/b.txt'
PathTxt ==
    <<"/", "b", ".", "t", "x", "t">>

\* a raw device path: '/dev/rdisk9'
PathRdisk9 ==
    <<"/", "d", "e", "v", "/", "r", "d", "i", "s", "k", "9">>

\* a block device path: '/dev/sdb'
PathSdb ==
    <<"/", "d", "e", "v", "/", "s", "d", "b">>

\* stderr chunks of the copy tool
DdChunks ==
    {ChunkError, ChunkProgress, ChunkRecords, ChunkMerged, ChunkPartial,
     ChunkTail, ChunkPadded, ChunkSeparated}

\* the progress line dd prints for a byte count, a rate and a rate unit:
\* '<count> bytes<sizes> copied, 1 s, <rate> <unit>\n', where <sizes> is
\* ' (2.1 MB, 2.0 MiB)' or empty
ProgressLine(count, sizes, rate, unit) ==
    count \o <<" ", "b", "y", "t", "e", "s">> \o sizes
          \o <<" ", "c", "o", "p", "i", "e", "d", ",", " ", "1", " ", "s", ",", " ">>
          \o rate \o <<" ">> \o unit \o <<"\n">>

\* byte counts of a progress line: '512', '1048576', '3670016'
ByteCounts ==
    {<<"5", "1", "2">>, <<"1", "0", "4", "8", "5", "7", "6">>,
     <<"3", "6", "7", "0", "0", "1", "6">>}

\* the sizes dd adds in parentheses from 1000 bytes on
SizeTexts ==
    {<<>>, <<" ", "(", "2", ".", "1", " ", "M", "B", ",", " ", "2", ".", "0",
             " ", "M", "i", "B", ")">>}

\* rates of a progress line: '2.1', '105'
Rates == {<<"2", ".", "1">>, <<"1", "0", "5">>}

\* the rate units dd prints: 'B/s', 'kB/s', 'MB/s', 'GB/s'
RateUnits ==
    {<<"B", "/", "s">>, <<"k", "B", "/", "s">>, <<"M", "B", "/", "s">>,
     <<"G", "B", "/", "s">>}

\* the progress lines of the copy tool, each delivered as one chunk
ProgressChunks ==
    {ProgressLine(count, sizes, rate, unit) :
       count \in ByteCounts, sizes \in SizeTexts, rate \in Rates,
       unit \in RateUnits}

\* chunks on the other streams (dd stdout, diskutil, pishrink)
OutputChunks == {ChunkOut}

\* stderr chunks of the copy tool delivered when the whole pipeline runs
PipelineChunks == {ChunkError, ChunkProgress}

\* exit codes of a child process that ran
ExitCodes == {0, 1}

\* the code of the 'close' event that follows the 'error' event of a failed
\* spawn (a negative errno)
SpawnFailCodes == {0 - 2}

\* err.message of a failed spawn
ErrMessage(kind) ==
    IF kind = "unmount" THEN SpawnDiskutilENOENT ELSE SpawnSudoENOENT

Platforms == {"darwin", "linux"}

\* what the device listing command reports, per device: on darwin every
\* <string>diskN</string> of the plist (a disk occurs under several keys) and
\* whether `diskutil info` of it succeeds; on linux the name and the RM column
Listings(plat) ==
    IF plat = "darwin"
    THEN {<<>>, <<[name |-> Disk9, info |-> TRUE]>>,
          <<[name |-> Disk9, info |-> FALSE], [name |-> Disk9, info |-> FALSE]>>}
    ELSE {<<>>, <<[name |-> Sdb, rm |-> FALSE], [name |-> Loop0, rm |-> FALSE]>>}

\* files of the browsed directory
DirFiles == {PathImg, PathImgGz, PathImgGzUpper, PathTxt}

\* what the user may type as a device path
ManualPaths == {<<>>, PathSdb, PathRdisk9}

\* join(path, fileName) of the file browser
BrowsedPaths == {PathImg}

-----------------------------------------------------------------------------
(* getDisks and the components that supply the selections *)

UpperCase ==
    <<"A", "B", "C", "D", "E", "F", "G", "H", "I", "J", "K", "L", "M", "N",
      "O", "P", "Q", "R", "S", "T", "U", "V", "W", "X", "Y", "Z">>

LowerCase ==
    <<"a", "b", "c", "d", "e", "f", "g", "h", "i", "j", "k", "l", "m", "n",
      "o", "p", "q", "r", "s", "t", "u", "v", "w", "x", "y", "z">>

ToLower(s) ==
    [i \in 1..Len(s) |->
       IF \E k \in 1..26 : UpperCase[k] = s[i]
       THEN LowerCase[CHOOSE k \in 1..26 : UpperCase[k] = s[i]]
       ELSE s[i]]

\* /\.(img|img\.gz|iso|dmg)$/i.test(name)
IsImageName(name) ==
    \E suffix \in {<<".", "i", "m", "g">>, <<".", "i", "m", "g", ".", "g", "z">>,
                   <<".", "i", "s", "o">>, <<".", "d", "m", "g">>} :
        EndsWith(ToLower(name), suffix)

\* the values of the file items of ImagePicker
ImagePickerFiles == {f \in DirFiles : IsImageName(f)}

\* seq restricted to the positions in keep (Array.prototype.filter)
KeepAt(seq, keep) ==
    LET F[i \in 0..Len(seq)] ==
            IF i = 0 THEN <<>>
            ELSE IF i \in keep THEN Append(F[i - 1], seq[i]) ELSE F[i - 1]
    IN  F[Len(seq)]

\* seq without the elements that occur earlier in it ([...new Set(seq)])
Dedupe(seq) ==
    KeepAt(seq, {i \in 1..Len(seq) : \A j \in 1..(i - 1) : seq[j] # seq[i]})

\* A variant of DarwinValue whose catch branch gives the buffered device
DarwinValueBuffered(disk, infoOk) ==
    IF infoOk THEN TxtDevR \o disk ELSE TxtDev \o disk

\* the value of the item of one darwin disk (index.js:43-55): the try branch
\* when `diskutil info` succeeds, the catch branch when it throws
DarwinValue(disk, infoOk) ==
    IF infoOk THEN TxtDevR \o disk ELSE TxtDevR \o disk

\* getDisks(): the value of each item; [<sentinel>] when the listing throws
GetDisks(plat, listing, throws) ==
    IF throws THEN <<<<>>>>
    ELSE IF plat = "darwin"
    THEN LET names == Dedupe([i \in 1..Len(listing) |-> listing[i].name])
             InfoOf(disk) ==
                 listing[CHOOSE i \in 1..Len(listing) : listing[i].name = disk].info
         IN  [i \in 1..Len(names) |-> DarwinValue(names[i], InfoOf(names[i]))]
    ELSE LET Kept(d) == \/ d.rm
                        \/ Includes(TxtDev \o d.name, <<"m", "m", "c", "b", "l", "k">>)
                        \/ Includes(TxtDev \o d.name, <<"s", "d">>)
             kept == KeepAt(listing, {i \in 1..Len(listing) : Kept(listing[i])})
         IN  [i \in 1..Len(kept) |-> TxtDev \o kept[i].name]

\* The effect that loads the disks on mount (index.js:262-269)
LoadDisks(diskList) ==
    (IF Len(diskList) = 0 THEN <<<<>>>> ELSE diskList) \o <<TxtManual>>

-----------------------------------------------------------------------------
(* React state updates *)

Mounted == app = "mounted"

\* exit() unmounts App (index.js:272-276). No child is killed and no
\* listener is removed: the process lives on while a child does, every
\* listener runs until the process has crashed (app # "crashed") and spawns
\* what it spawns, and the state setters it calls on the unmounted
\* component change nothing.

\* setState(s) in a handler of the run numbered run
SetState(run, s) ==
    IF Mounted
    THEN state' = s /\ trail' = Append(trail, <<run, s>>)
    ELSE UNCHANGED <<state, trail>>

\* A variant of SetError that stores no reason
SetErrorBlank(e) == error' = <<>>

SetError(e) == IF Mounted THEN error' = e ELSE UNCHANGED error

\* A variant of Logged that keeps six of the earlier entries
LoggedSeven(prev, message) ==
    SubSeq(prev, IF Len(prev) > 6 THEN Len(prev) - 5 ELSE 1, Len(prev))
        \o <<message>>

\* addLog(message): setLogs(prev => [...prev.slice(-5), message])
Logged(prev, message) ==
    SubSeq(prev, IF Len(prev) > 5 THEN Len(prev) - 4 ELSE 1, Len(prev))
        \o <<message>>

\* The logs after addLog has been called with each of messages in turn
RECURSIVE LoggedAll(_, _)
LoggedAll(prev, messages) ==
    IF messages = <<>> THEN prev
    ELSE LoggedAll(Logged(prev, Head(messages)), Tail(messages))

AddLog(messages) ==
    IF Mounted THEN logs' = LoggedAll(logs, messages) ELSE UNCHANGED logs

-----------------------------------------------------------------------------
(* Child processes *)

\* spawn(...): the child of kind `kind` started by the handlers of `op`,
\* which close over src and dst.  started = FALSE: the spawn fails and the
\* child delivers 'error'.
Child(kind, op, run, src, dst, gz, started) ==
    [id |-> spawned + 1, kind |-> kind, op |-> op, run |-> run, src |-> src,
     dst |-> dst, gz |-> gz,
     status |-> IF started THEN "running" ELSE "spawnfail",
     lastError |-> <<>>, unmountError |-> <<>>, seen |-> <<>>]

\* a child process that runs
Alive(p) == p.status = "running"

\* the child may deliver 'close' with this code
ClosesWith(p, code) ==
    \/ p.status = "running" /\ code \in ExitCodes
    \/ p.status = "errored" /\ code \in SpawnFailCodes

\* the event ev of child p
Event(p, ev, code) ==
    [kind |-> p.kind, op |-> p.op, ev |-> ev, code |-> code, id |-> p.id,
     run |-> p.run, src |-> p.src, dst |-> p.dst, status |-> p.status,
     seen |-> p.seen,
     lastError |-> p.lastError, gz |-> p.gz, gunzip |-> 0, dd |-> code]

\* a selection of the user
UserEvent ==
    [kind |-> "user", op |-> "none", ev |-> "none", code |-> 0, id |-> 0,
     run |-> 0, src |-> <<>>, dst |-> <<>>, status |-> "none", seen |-> <<>>,
     lastError |-> <<>>, gz |-> FALSE, gunzip |-> 0, dd |-> 0]

\* a selection of the user in a list of disks: the value of the chosen item
ItemEvent(value) ==
    [UserEvent EXCEPT !.ev = IF value = <<>> THEN "emptyItem"
                            ELSE IF value = TxtManual THEN "manualItem"
                            ELSE "item"]

NoEvent ==
    [kind |-> "none", op |-> "none", ev |-> "none", code |-> 0, id |-> 0,
     run |-> 0, src |-> <<>>, dst |-> <<>>, status |-> "none", seen |-> <<>>,
     lastError |-> <<>>, gz |-> FALSE, gunzip |-> 0, dd |-> 0]

envVars == <<platform, disks>>
metricVars == <<bytesWritten, speed>>
selectionVars == <<mode, source, destination>>
manualVars == <<manualSource, showManualInput>>
procVars == <<procs, runs, spawned, delivered>>

-----------------------------------------------------------------------------
(* The state after App has been mounted and its disks effect has run *)

Init ==
    /\ app = "mounted"
    /\ platform \in Platforms
    /\ toolPresent = FALSE
    /\ \E listing \in Listings(platform), throws \in BOOLEAN :
           disks = LoadDisks(GetDisks(platform, listing, throws))
    /\ mode = NoMode
    /\ state = STATES.MAIN_MENU
    /\ source = <<>>
    /\ destination = <<>>
    /\ bytesWritten = <<"0">>
    /\ speed = <<"0">>
    /\ error = <<>>
    /\ logs = <<>>
    /\ shrinkProgress = <<>>
    /\ manualSource = <<>>
    /\ showManualInput = FALSE
    /\ procs = {}
    /\ runs = 0
    /\ spawned = 0
    /\ delivered = 0
    /\ lastEvent = NoEvent
    /\ trail = <<>>

-----------------------------------------------------------------------------
(* User selections (renderContent, useInput) *)

\* exit() of useApp: the application is unmounted
Exit == app' = "exited"

\* MAIN_MENU onSelect (index.js:634-644)
MainMenuSelect(item) ==
    /\ Mounted
    /\ state = STATES.MAIN_MENU
    /\ item \in {"backup", "restore", "exit"}
    /\ IF item = "backup"
       THEN mode' = MODES.BACKUP /\ state' = STATES.SELECT_SOURCE /\ UNCHANGED app
       ELSE IF item = "restore"
       THEN mode' = MODES.RESTORE /\ state' = STATES.SELECT_SOURCE /\ UNCHANGED app
       ELSE Exit /\ UNCHANGED <<mode, state>>
    /\ lastEvent' = UserEvent
    /\ UNCHANGED <<envVars, toolPresent, source, destination, metricVars, error,
                   logs, shrinkProgress, manualVars, procVars, trail>>

\* SELECT_SOURCE, mode RESTORE: ImagePicker onSelect (index.js:652-661)
SelectSourceImage(path) ==
    /\ Mounted
    /\ state = STATES.SELECT_SOURCE
    /\ mode = MODES.RESTORE
    /\ path \in ImagePickerFiles
    /\ source' = path
    /\ state' = STATES.SELECT_DEST
    /\ lastEvent' = UserEvent
    /\ UNCHANGED <<app, envVars, toolPresent, mode, destination, metricVars,
                   error, logs, shrinkProgress, manualVars, procVars, trail>>

\* renderContent returns the TextInput of the device path (index.js:650-683):
\* only in SELECT_SOURCE, outside Restore, once the manual entry was chosen
ManualInputShown ==
    /\ state = STATES.SELECT_SOURCE
    /\ mode # MODES.RESTORE
    /\ showManualInput

\* SELECT_SOURCE, manual input: TextInput onChange (index.js:672)
ManualSourceChange(text) ==
    /\ Mounted
    /\ ManualInputShown
    /\ text \in ManualPaths
    /\ manualSource' = text
    /\ lastEvent' = UserEvent
    /\ UNCHANGED <<app, envVars, toolPresent, selectionVars, state, metricVars,
                   error, logs, shrinkProgress, showManualInput, procVars, trail>>

\* SELECT_SOURCE, manual input: TextInput onSubmit (index.js:673-676)
ManualSourceSubmit ==
    /\ Mounted
    /\ ManualInputShown
    /\ source' = manualSource
    /\ state' = STATES.SELECT_DEST
    /\ lastEvent' = UserEvent
    /\ UNCHANGED <<app, envVars, toolPresent, mode, destination, metricVars,
                   error, logs, shrinkProgress, manualVars, procVars, trail>>

\* SELECT_SOURCE, disk list: SelectInput onSelect (index.js:689-696)
SelectSourceDisk(i) ==
    /\ Mounted
    /\ state = STATES.SELECT_SOURCE
    /\ mode # MODES.RESTORE
    /\ ~showManualInput
    /\ i \in 1..Len(disks)
    /\ IF disks[i] = TxtManual
       THEN showManualInput' = TRUE /\ UNCHANGED <<source, state>>
       ELSE IF disks[i] # <<>>
       THEN source' = disks[i] /\ state' = STATES.SELECT_DEST
            /\ UNCHANGED showManualInput
       ELSE UNCHANGED <<source, state, showManualInput>>
    /\ lastEvent' = ItemEvent(disks[i])
    /\ UNCHANGED <<app, envVars, toolPresent, mode, destination, metricVars,
                   error, logs, shrinkProgress, manualSource, procVars, trail>>

\* A variant of SelectDestDisk that takes every item but the manual entry
SelectDestDiskAny(i) ==
    /\ Mounted
    /\ state = STATES.SELECT_DEST
    /\ mode = MODES.RESTORE
    /\ i \in 1..Len(disks)
    /\ IF disks[i] = TxtManual
       THEN showManualInput' = TRUE /\ UNCHANGED <<destination, state>>
       ELSE destination' = disks[i] /\ state' = STATES.CONFIRM
            /\ UNCHANGED showManualInput
    /\ lastEvent' = ItemEvent(disks[i])
    /\ UNCHANGED <<app, envVars, toolPresent, mode, source, metricVars, error,
                   logs, shrinkProgress, manualSource, procVars, trail>>

\* SELECT_DEST, mode RESTORE: SelectInput onSelect (index.js:712-719)
SelectDestDisk(i) ==
    /\ Mounted
    /\ state = STATES.SELECT_DEST
    /\ mode = MODES.RESTORE
    /\ i \in 1..Len(disks)
    /\ IF disks[i] = TxtManual
       THEN showManualInput' = TRUE /\ UNCHANGED <<destination, state>>
       ELSE IF disks[i] # <<>>
       THEN destination' = disks[i] /\ state' = STATES.CONFIRM
            /\ UNCHANGED showManualInput
       ELSE UNCHANGED <<destination, state, showManualInput>>
    /\ lastEvent' = ItemEvent(disks[i])
    /\ UNCHANGED <<app, envVars, toolPresent, mode, source, metricVars, error,
                   logs, shrinkProgress, manualSource, procVars, trail>>

\* SELECT_DEST, mode BACKUP: FileBrowser onSelect (index.js:727-733)
SelectDestFile(path) ==
    /\ Mounted
    /\ state = STATES.SELECT_DEST
    /\ mode # MODES.RESTORE
    /\ path \in BrowsedPaths
    /\ destination' = path
    /\ state' = STATES.CONFIRM
    /\ lastEvent' = UserEvent
    /\ UNCHANGED <<app, envVars, toolPresent, mode, source, metricVars, error,
                   logs, shrinkProgress, manualVars, procVars, trail>>

\* validateAndBackup (index.js:283-290): the part that runs at the call
ValidateAndBackup(started) ==
    /\ SetState(runs + 1, STATES.VALIDATING)
    /\ AddLog(<<LogValidating>>)
    /\ procs' = procs \cup
                  {Child("sudoCheck", "backup", runs + 1, source, destination,
                         FALSE, started)}
    /\ spawned' = spawned + 1
    /\ runs' = runs + 1

\* validateAndRestore (index.js:494-500): the part that runs at the call
ValidateAndRestore(started) ==
    /\ SetState(runs + 1, STATES.VALIDATING)
    /\ AddLog(<<LogValidating>>)
    /\ procs' = procs \cup
                  {Child("sudoCheck", "restore", runs + 1, source, destination,
                         FALSE, started)}
    /\ spawned' = spawned + 1
    /\ runs' = runs + 1

\* A variant of ConfirmSelect whose menu stays on the screen while the
\* operation is active and still takes "start"
ConfirmSelectWhileActive(item, started) ==
    /\ Mounted
    /\ \/ state = STATES.CONFIRM
       \/ /\ item = "start"
          /\ state \in {STATES.VALIDATING, STATES.BACKING_UP, STATES.RESTORING,
                        STATES.SHRINKING}
    /\ item \in {"start", "back", "cancel"}
    /\ IF item = "start"
       THEN /\ IF mode = MODES.RESTORE
               THEN ValidateAndRestore(started)
               ELSE ValidateAndBackup(started)
            /\ UNCHANGED app
       ELSE IF item = "back"
       THEN state' = STATES.SELECT_SOURCE
            /\ UNCHANGED <<app, logs, procs, runs, spawned, trail>>
       ELSE Exit /\ UNCHANGED <<state, logs, procs, runs, spawned, trail>>
    /\ lastEvent' = UserEvent
    /\ UNCHANGED <<envVars, toolPresent, selectionVars, metricVars, error,
                   shrinkProgress, manualVars, delivered>>

\* CONFIRM onSelect (index.js:759-775)
ConfirmSelect(item, started) ==
    /\ Mounted
    /\ state = STATES.CONFIRM
    /\ item \in {"start", "back", "cancel"}
    /\ IF item = "start"
       THEN /\ IF mode = MODES.RESTORE
               THEN ValidateAndRestore(started)
               ELSE ValidateAndBackup(started)
            /\ UNCHANGED app
       ELSE IF item = "back"
       THEN state' = STATES.SELECT_SOURCE
            /\ UNCHANGED <<app, logs, procs, runs, spawned, trail>>
       ELSE Exit /\ UNCHANGED <<state, logs, procs, runs, spawned, trail>>
    /\ lastEvent' = UserEvent
    /\ UNCHANGED <<envVars, toolPresent, selectionVars, metricVars, error,
                   shrinkProgress, manualVars, delivered>>

\* A variant of ErrorSelect whose retry forgets the source
ErrorSelectForgetful(item) ==
    /\ Mounted
    /\ state = STATES.ERROR
    /\ item \in {"retry", "menu", "exit"}
    /\ IF item = "retry"
       THEN /\ error' = <<>>
            /\ source' = <<>>
            /\ state' = STATES.SELECT_SOURCE
            /\ UNCHANGED <<app, mode, destination>>
       ELSE IF item = "menu"
       THEN /\ error' = <<>>
            /\ source' = <<>>
            /\ destination' = <<>>
            /\ mode' = NoMode
            /\ state' = STATES.MAIN_MENU
            /\ UNCHANGED app
       ELSE Exit /\ UNCHANGED <<error, state, selectionVars>>
    /\ lastEvent' = UserEvent
    /\ UNCHANGED <<envVars, toolPresent, metricVars, logs, shrinkProgress,
                   manualVars, procVars, trail>>

\* ERROR onSelect (index.js:878-891)
ErrorSelect(item) ==
    /\ Mounted
    /\ state = STATES.ERROR
    /\ item \in {"retry", "menu", "exit"}
    /\ IF item = "retry"
       THEN /\ error' = <<>>
            /\ state' = STATES.SELECT_SOURCE
            /\ UNCHANGED <<app, selectionVars>>
       ELSE IF item = "menu"
       THEN /\ error' = <<>>
            /\ source' = <<>>
            /\ destination' = <<>>
            /\ mode' = NoMode
            /\ state' = STATES.MAIN_MENU
            /\ UNCHANGED app
       ELSE Exit /\ UNCHANGED <<error, state, selectionVars>>
    /\ lastEvent' = UserEvent
    /\ UNCHANGED <<envVars, toolPresent, metricVars, logs, shrinkProgress,
                   manualVars, procVars, trail>>

\* A variant of Quit that leaves the keys to the text input while it is shown
QuitOutsideInput ==
    /\ Mounted
    /\ ~ManualInputShown
    /\ Exit
    /\ lastEvent' = UserEvent
    /\ UNCHANGED <<envVars, toolPresent, selectionVars, state, metricVars, error,
                   logs, shrinkProgress, manualVars, procVars, trail>>

\* useInput: 'q' or Ctrl+C in any state (index.js:272-276)
Quit ==
    /\ Mounted
    /\ Exit
    /\ lastEvent' = UserEvent
    /\ UNCHANGED <<envVars, toolPresent, selectionVars, state, metricVars, error,
                   logs, shrinkProgress, manualVars, procVars, trail>>

-----------------------------------------------------------------------------
(* The stages of the pipeline.  Each takes the child p whose handler calls  *)
(* it, rest (the children that remain once p's event is handled), before    *)
(* (the messages the caller has logged in the same handler) and started     *)
(* (whether the spawn succeeds).                                            *)

\* p once its 'error' event has been delivered: 'close' is still to come
Errored(p) == [p EXCEPT !.status = "errored"]

\* checkSourceAndBackup (index.js:346-348): sets logs, procs, spawned
CheckSourceAndBackup(p, rest, before, started) ==
    /\ AddLog(before \o <<LogChecking>>)
    /\ procs' = rest \cup {Child("checkSource", "backup", p.run, p.src, p.dst, FALSE, started)}
    /\ spawned' = spawned + 1

\* runBackup (index.js:364-376): sets state, logs, procs, spawned
RunBackup(p, rest, before, started) ==
    /\ SetState(p.run, STATES.BACKING_UP)
    /\ AddLog(before \o <<LogStartingBackup \o p.src \o LogTo \o p.dst>>)
    /\ procs' = rest \cup {Child("dd", "backup", p.run, p.src, p.dst, FALSE, started)}
    /\ spawned' = spawned + 1

\* runShrink (index.js:436-441): sets logs, procs, spawned
RunShrink(p, rest, before, started) ==
    /\ AddLog(before \o <<LogRunningPishrink>>)
    /\ procs' = rest \cup {Child("pishrink", "backup", p.run, p.src, p.dst, FALSE, started)}
    /\ spawned' = spawned + 1

\* runPishrink (index.js:430-434, 472-490): sets state, logs, procs, spawned,
\* toolPresent.  exists is what existsSync(pishrinkPath) returns.
RunPishrink(p, rest, before, started, exists) ==
    /\ SetState(p.run, STATES.SHRINKING)
    /\ toolPresent' = exists
    /\ IF ~exists
       THEN /\ AddLog(before \o <<LogNotFoundDownloading>>)
            /\ procs' = rest \cup
                          {Child("download", "backup", p.run, p.src, p.dst, FALSE, started)}
            /\ spawned' = spawned + 1
       ELSE RunShrink(p, rest, before, started)

\* runRestore (index.js:543-569): sets state, logs, procs, spawned
RunRestore(p, rest, before, started) ==
    /\ SetState(p.run, STATES.RESTORING)
    /\ AddLog(before \o <<LogRestoring \o p.src \o LogTo \o p.dst>>
                     \o (IF IsGzipped(p.src) THEN <<LogDecompressing>> ELSE <<>>))
    /\ procs' = rest \cup
                  {Child("dd", "restore", p.run, p.src, p.dst, IsGzipped(p.src), started)}
    /\ spawned' = spawned + 1

\* the flags of the dd command of copy child p, besides if= and of=
\* (index.js:370-372, 556-558, 562-564): the compressed Restore runs
\* 'gunzip -c ... | dd of=... bs=4m status=progress' on every platform
DdFlags(p) ==
    IF p.op = "restore" /\ p.gz
    THEN {"bs=4m", "status=progress"}
    ELSE IF platform = "darwin"
    THEN {"bs=4m", "status=progress"}
    ELSE {"bs=4M", "status=progress", "conv=fsync"}

-----------------------------------------------------------------------------
(* Handlers of the privilege check *)

\* A variant of SudoCheckCloseBackup that unmounts on every platform
SudoCheckCloseBackupAnyPlatform(p, code, started) ==
    /\ app # "crashed"
    /\ p \in procs /\ p.kind = "sudoCheck" /\ p.op = "backup"
    /\ ClosesWith(p, code)
    /\ IF code # 0
       THEN /\ SetError(ErrSudoAuth)
            /\ SetState(p.run, STATES.ERROR)
            /\ procs' = procs \ {p}
            /\ UNCHANGED <<logs, spawned>>
       ELSE IF DiskMatch(p.src) # <<>>
       THEN /\ AddLog(<<LogUnmounting \o DiskMatch(p.src) \o LogDots>>)
            /\ procs' = (procs \ {p}) \cup
                          {Child("unmount", "backup", p.run, p.src, p.dst, FALSE, started)}
            /\ spawned' = spawned + 1
            /\ UNCHANGED <<error, state, trail>>
       ELSE /\ CheckSourceAndBackup(p, procs \ {p}, <<>>, started)
            /\ UNCHANGED <<error, state, trail>>
    /\ lastEvent' = Event(p, "close", code)
    /\ UNCHANGED <<app, envVars, toolPresent, selectionVars, metricVars,
                   shrinkProgress, manualVars, runs, delivered>>

\* validateAndBackup: sudoCheck.on('close') (index.js:292-337)
SudoCheckCloseBackup(p, code, started) ==
    /\ app # "crashed"
    /\ p \in procs /\ p.kind = "sudoCheck" /\ p.op = "backup"
    /\ ClosesWith(p, code)
    /\ IF code # 0
       THEN /\ SetError(ErrSudoAuth)
            /\ SetState(p.run, STATES.ERROR)
            /\ procs' = procs \ {p}
            /\ UNCHANGED <<logs, spawned>>
       ELSE IF DiskMatch(p.src) # <<>> /\ platform = "darwin"
       THEN /\ AddLog(<<LogUnmounting \o DiskMatch(p.src) \o LogDots>>)
            /\ procs' = (procs \ {p}) \cup
                          {Child("unmount", "backup", p.run, p.src, p.dst, FALSE, started)}
            /\ spawned' = spawned + 1
            /\ UNCHANGED <<error, state, trail>>
       ELSE /\ CheckSourceAndBackup(p, procs \ {p}, <<>>, started)
            /\ UNCHANGED <<error, state, trail>>
    /\ lastEvent' = Event(p, "close", code)
    /\ UNCHANGED <<app, envVars, toolPresent, selectionVars, metricVars,
                   shrinkProgress, manualVars, runs, delivered>>

\* validateAndBackup: sudoCheck.on('error') (index.js:339-342)
SudoCheckErrorBackup(p) ==
    /\ app # "crashed"
    /\ p \in procs /\ p.kind = "sudoCheck" /\ p.op = "backup"
    /\ p.status = "spawnfail"
    /\ SetError(ErrSudoFailed \o ErrMessage(p.kind))
    /\ SetState(p.run, STATES.ERROR)
    /\ procs' = (procs \ {p}) \cup {Errored(p)}
    /\ lastEvent' = Event(p, "error", 0)
    /\ UNCHANGED <<app, envVars, toolPresent, selectionVars, metricVars, logs,
                   shrinkProgress, manualVars, runs, spawned, delivered>>

\* A variant of SudoCheckCloseRestore that goes on whatever the exit code
SudoCheckCloseRestoreLenient(p, code, started) ==
    /\ app # "crashed"
    /\ p \in procs /\ p.kind = "sudoCheck" /\ p.op = "restore"
    /\ ClosesWith(p, code)
    /\ RunRestore(p, procs \ {p}, <<>>, started)
    /\ lastEvent' = Event(p, "close", code)
    /\ UNCHANGED <<app, envVars, toolPresent, selectionVars, metricVars, error,
                   shrinkProgress, manualVars, runs, delivered>>

\* validateAndRestore: sudoCheck.on('close') (index.js:502-534)
SudoCheckCloseRestore(p, code, started) ==
    /\ app # "crashed"
    /\ p \in procs /\ p.kind = "sudoCheck" /\ p.op = "restore"
    /\ ClosesWith(p, code)
    /\ IF code # 0
       THEN /\ SetError(ErrSudoAuth)
            /\ SetState(p.run, STATES.ERROR)
            /\ procs' = procs \ {p}
            /\ UNCHANGED <<logs, spawned>>
       ELSE IF DiskMatch(p.dst) # <<>> /\ platform = "darwin"
       THEN /\ AddLog(<<LogUnmounting \o DiskMatch(p.dst) \o LogDots>>)
            /\ procs' = (procs \ {p}) \cup
                          {Child("unmount", "restore", p.run, p.src, p.dst, FALSE, started)}
            /\ spawned' = spawned + 1
            /\ UNCHANGED <<error, state, trail>>
       ELSE /\ RunRestore(p, procs \ {p}, <<>>, started)
            /\ UNCHANGED error
    /\ lastEvent' = Event(p, "close", code)
    /\ UNCHANGED <<app, envVars, toolPresent, selectionVars, metricVars,
                   shrinkProgress, manualVars, runs, delivered>>

\* validateAndRestore: sudoCheck.on('error') (index.js:536-539)
SudoCheckErrorRestore(p) ==
    /\ app # "crashed"
    /\ p \in procs /\ p.kind = "sudoCheck" /\ p.op = "restore"
    /\ p.status = "spawnfail"
    /\ SetError(ErrSudoFailed \o ErrMessage(p.kind))
    /\ SetState(p.run, STATES.ERROR)
    /\ procs' = (procs \ {p}) \cup {Errored(p)}
    /\ lastEvent' = Event(p, "error", 0)
    /\ UNCHANGED <<app, envVars, toolPresent, selectionVars, metricVars, logs,
                   shrinkProgress, manualVars, runs, spawned, delivered>>

-----------------------------------------------------------------------------
(* Handlers of the unmount *)

\* validateAndBackup: unmount.stderr.on('data') (index.js:311-313)
UnmountStderrBackup(p, chunk) ==
    /\ app # "crashed"
    /\ p \in procs /\ p.kind = "unmount" /\ p.op = "backup"
    /\ Alive(p)
    /\ procs' = (procs \ {p}) \cup
                  {[p EXCEPT !.unmountError = p.unmountError \o chunk]}
    /\ delivered' = delivered + 1
    /\ lastEvent' = Event(p, "stderr", 0)
    /\ UNCHANGED <<app, envVars, toolPresent, selectionVars, state, trail,
                   metricVars,
                   error, logs, shrinkProgress, manualVars, runs, spawned>>

\* validateAndBackup: unmount.stdout.on('data') (index.js:315-317)
UnmountStdoutBackup(p, chunk) ==
    /\ app # "crashed"
    /\ p \in procs /\ p.kind = "unmount" /\ p.op = "backup"
    /\ Alive(p)
    /\ AddLog(<<Substring(Trim(chunk), 0, 60)>>)
    /\ delivered' = delivered + 1
    /\ lastEvent' = Event(p, "stdout", 0)
    /\ UNCHANGED <<app, envVars, toolPresent, selectionVars, state, trail,
                   metricVars,
                   error, shrinkProgress, manualVars, procs, runs, spawned>>

\* validateAndBackup: unmount.on('close') (index.js:319-327)
UnmountCloseBackup(p, code, started) ==
    /\ app # "crashed"
    /\ p \in procs /\ p.kind = "unmount" /\ p.op = "backup"
    /\ ClosesWith(p, code)
    /\ CheckSourceAndBackup(p, procs \ {p},
          <<IF code # 0
            THEN LogUnmountWarning \o
                   (IF Trim(p.unmountError) # <<>>
                    THEN Trim(p.unmountError) ELSE LogMayBeUnmounted)
            ELSE LogUnmounted>>,
          started)
    /\ lastEvent' = Event(p, "close", code)
    /\ UNCHANGED <<app, envVars, toolPresent, selectionVars, state, trail,
                   metricVars,
                   error, shrinkProgress, manualVars, runs, delivered>>

\* validateAndBackup: unmount.on('error') (index.js:329-332)
UnmountErrorBackup(p, started) ==
    /\ app # "crashed"
    /\ p \in procs /\ p.kind = "unmount" /\ p.op = "backup"
    /\ p.status = "spawnfail"
    /\ CheckSourceAndBackup(p, (procs \ {p}) \cup {Errored(p)},
          <<LogUnmountSkipped \o ErrMessage(p.kind)>>, started)
    /\ lastEvent' = Event(p, "error", 0)
    /\ UNCHANGED <<app, envVars, toolPresent, selectionVars, state, trail,
                   metricVars,
                   error, shrinkProgress, manualVars, runs, delivered>>

\* A variant of UnmountCloseRestore for which a non-zero exit code is fatal
UnmountCloseRestoreStrict(p, code, started) ==
    /\ app # "crashed"
    /\ p \in procs /\ p.kind = "unmount" /\ p.op = "restore"
    /\ ClosesWith(p, code)
    /\ IF code # 0
       THEN /\ SetError(LogUnmountWarningRestore)
            /\ SetState(p.run, STATES.ERROR)
            /\ procs' = procs \ {p}
            /\ UNCHANGED <<logs, spawned>>
       ELSE /\ RunRestore(p, procs \ {p}, <<LogUnmounted>>, started)
            /\ UNCHANGED error
    /\ lastEvent' = Event(p, "close", code)
    /\ UNCHANGED <<app, envVars, toolPresent, selectionVars, metricVars,
                   shrinkProgress, manualVars, runs, delivered>>

\* A variant of UnmountCloseRestore that logs nothing about a failed unmount
UnmountCloseRestoreSilent(p, code, started) ==
    /\ app # "crashed"
    /\ p \in procs /\ p.kind = "unmount" /\ p.op = "restore"
    /\ ClosesWith(p, code)
    /\ RunRestore(p, procs \ {p},
          IF code # 0 THEN <<>> ELSE <<LogUnmounted>>, started)
    /\ lastEvent' = Event(p, "close", code)
    /\ UNCHANGED <<app, envVars, toolPresent, selectionVars, metricVars, error,
                   shrinkProgress, manualVars, runs, delivered>>

\* validateAndRestore: unmount.on('close') (index.js:519-526)
UnmountCloseRestore(p, code, started) ==
    /\ app # "crashed"
    /\ p \in procs /\ p.kind = "unmount" /\ p.op = "restore"
    /\ ClosesWith(p, code)
    /\ RunRestore(p, procs \ {p},
          <<IF code # 0 THEN LogUnmountWarningRestore ELSE LogUnmounted>>, started)
    /\ lastEvent' = Event(p, "close", code)
    /\ UNCHANGED <<app, envVars, toolPresent, selectionVars, metricVars, error,
                   shrinkProgress, manualVars, runs, delivered>>

\* validateAndRestore: unmount.on('error') (index.js:528-530)
UnmountErrorRestore(p, started) ==
    /\ app # "crashed"
    /\ p \in procs /\ p.kind = "unmount" /\ p.op = "restore"
    /\ p.status = "spawnfail"
    /\ RunRestore(p, (procs \ {p}) \cup {Errored(p)}, <<>>, started)
    /\ lastEvent' = Event(p, "error", 0)
    /\ UNCHANGED <<app, envVars, toolPresent, selectionVars, metricVars, error,
                   shrinkProgress, manualVars, runs, delivered>>

-----------------------------------------------------------------------------
(* Handlers of the source probe (Backup) *)

\* A variant of CheckSourceClose that starts the copy whatever the exit code
CheckSourceCloseLenient(p, code, started) ==
    /\ app # "crashed"
    /\ p \in procs /\ p.kind = "checkSource"
    /\ ClosesWith(p, code)
    /\ RunBackup(p, procs \ {p}, <<>>, started)
    /\ lastEvent' = Event(p, "close", code)
    /\ UNCHANGED <<app, envVars, toolPresent, selectionVars, metricVars, error,
                   shrinkProgress, manualVars, runs, delivered>>

\* checkSourceAndBackup: checkSource.on('close') (index.js:349-356)
CheckSourceClose(p, code, started) ==
    /\ app # "crashed"
    /\ p \in procs /\ p.kind = "checkSource"
    /\ ClosesWith(p, code)
    /\ IF code # 0
       THEN /\ SetError(ErrSourceNotFound \o p.src)
            /\ SetState(p.run, STATES.ERROR)
            /\ procs' = procs \ {p}
            /\ UNCHANGED <<logs, spawned>>
       ELSE /\ RunBackup(p, procs \ {p}, <<>>, started)
            /\ UNCHANGED error
    /\ lastEvent' = Event(p, "close", code)
    /\ UNCHANGED <<app, envVars, toolPresent, selectionVars, metricVars,
                   shrinkProgress, manualVars, runs, delivered>>

\* checkSourceAndBackup: checkSource.on('error') (index.js:357-360)
CheckSourceError(p) ==
    /\ app # "crashed"
    /\ p \in procs /\ p.kind = "checkSource"
    /\ p.status = "spawnfail"
    /\ SetError(ErrCannotAccess \o ErrMessage(p.kind))
    /\ SetState(p.run, STATES.ERROR)
    /\ procs' = (procs \ {p}) \cup {Errored(p)}
    /\ lastEvent' = Event(p, "error", 0)
    /\ UNCHANGED <<app, envVars, toolPresent, selectionVars, metricVars, logs,
                   shrinkProgress, manualVars, runs, spawned, delivered>>

-----------------------------------------------------------------------------
(* Handlers of the copy subprocess *)

\* runBackup: dd.stderr.on('data') (index.js:379-403)
\* runRestore: ddProcess.stderr.on('data') (index.js:571-592)
DdStderr(p, chunk) ==
    /\ app # "crashed"
    /\ p \in procs /\ p.kind = "dd"
    /\ Alive(p)
    /\ procs' = (procs \ {p}) \cup
                  {[p EXCEPT !.lastError = NextLastError(p.lastError, chunk),
                             !.seen = Append(p.seen, chunk)]}
    /\ IF Mounted
       THEN /\ bytesWritten' = NextBytesWritten(bytesWritten, chunk)
            /\ speed' = NextSpeed(speed, chunk)
       ELSE UNCHANGED metricVars
    /\ AddLog(<<Substring(Trim(chunk), 0, 60)>>)
    /\ delivered' = delivered + 1
    /\ lastEvent' = Event(p, "stderr", 0)
    /\ UNCHANGED <<app, envVars, toolPresent, selectionVars, state, trail, error,
                   shrinkProgress, manualVars, runs, spawned>>

\* runBackup: dd.stdout.on('data') (index.js:405-410)
\* runRestore: ddProcess.stdout.on('data') (index.js:594-597)
DdStdout(p, chunk) ==
    /\ app # "crashed"
    /\ p \in procs /\ p.kind = "dd"
    /\ Alive(p)
    /\ IF Trim(chunk) # <<>>
       THEN AddLog(<<Substring(Trim(chunk), 0, 60)>>)
       ELSE UNCHANGED logs
    /\ delivered' = delivered + 1
    /\ lastEvent' = Event(p, "stdout", 0)
    /\ UNCHANGED <<app, envVars, toolPresent, selectionVars, state, trail,
                   metricVars,
                   error, shrinkProgress, manualVars, procs, runs, spawned>>

\* A variant of ErrorMsg that reports the exit code whatever stderr held
ErrorMsgCodeOnly(lastError, code) == ErrExitCode \o IntToString(code)

\* A variant of ErrorMsg that falls back on an error line kept in the log
ErrorMsgFromLog(lastError, code) ==
    IF lastError # <<>> THEN lastError
    ELSE IF \E i \in 1..Len(logs) : logs[i] = Trim(ChunkError)
    THEN Trim(ChunkError)
    ELSE ErrExitCode \o IntToString(code)

\* const errorMsg = lastError || `exit code ${code}` (index.js:417, 604)
ErrorMsg(lastError, code) ==
    IF lastError # <<>> THEN lastError ELSE ErrExitCode \o IntToString(code)

\* A variant of DdCloseBackup that completes the run without the shrink stage
DdCloseBackupUnshrunk(p, code, started, exists) ==
    /\ app # "crashed"
    /\ p \in procs /\ p.kind = "dd" /\ p.op = "backup"
    /\ ClosesWith(p, code)
    /\ IF code = 0
       THEN /\ AddLog(<<LogBackupComplete>>)
            /\ SetState(p.run, STATES.COMPLETE)
            /\ UNCHANGED error
       ELSE /\ SetError(ErrDdFailed \o ErrorMsg(p.lastError, code))
            /\ SetState(p.run, STATES.ERROR)
            /\ UNCHANGED logs
    /\ procs' = procs \ {p}
    /\ lastEvent' = Event(p, "close", code)
    /\ UNCHANGED <<app, envVars, toolPresent, selectionVars, metricVars,
                   shrinkProgress, manualVars, runs, spawned, delivered>>

\* runBackup: dd.on('close') (index.js:412-421)
DdCloseBackup(p, code, started, exists) ==
    /\ app # "crashed"
    /\ p \in procs /\ p.kind = "dd" /\ p.op = "backup"
    /\ ClosesWith(p, code)
    /\ IF code = 0
       THEN /\ RunPishrink(p, procs \ {p}, <<LogBackupComplete>>, started, exists)
            /\ UNCHANGED error
       ELSE /\ SetError(ErrDdFailed \o ErrorMsg(p.lastError, code))
            /\ SetState(p.run, STATES.ERROR)
            /\ procs' = procs \ {p}
            /\ UNCHANGED <<logs, spawned, toolPresent>>
    /\ lastEvent' = Event(p, "close", code)
    /\ UNCHANGED <<app, envVars, selectionVars, metricVars,
                   shrinkProgress, manualVars, runs, delivered>>

\* runBackup: dd.on('error') (index.js:423-426)
DdErrorBackup(p) ==
    /\ app # "crashed"
    /\ p \in procs /\ p.kind = "dd" /\ p.op = "backup"
    /\ p.status = "spawnfail"
    /\ SetError(ErrStartDd \o ErrMessage(p.kind))
    /\ SetState(p.run, STATES.ERROR)
    /\ procs' = (procs \ {p}) \cup {Errored(p)}
    /\ lastEvent' = Event(p, "error", 0)
    /\ UNCHANGED <<app, envVars, toolPresent, selectionVars, metricVars, logs,
                   shrinkProgress, manualVars, runs, spawned, delivered>>

\* A variant of PipelineStatus under pipefail: the first failure of the pipeline
PipelineStatusPipefail(gunzipCode, ddCode) ==
    IF gunzipCode # 0 THEN gunzipCode ELSE ddCode

\* the exit status of bash -c 'gunzip -c ... | dd ...' (index.js:553-560):
\* that of the last command of the pipeline
PipelineStatus(gunzipCode, ddCode) == ddCode

\* the code of the 'close' event of the copy process of a Restore
\* (index.js:553-568): the status of the pipeline when the source is
\* compressed, that of dd otherwise
RestoreStatus(p, gunzipCode, ddCode) ==
    IF p.gz /\ Alive(p) THEN PipelineStatus(gunzipCode, ddCode) ELSE ddCode

\* runRestore: ddProcess.on('close') (index.js:599-608).  ddCode and
\* gunzipCode are the exit statuses of dd and, in a pipeline, of gunzip.
DdCloseRestore(p, ddCode, gunzipCode) ==
    LET code == RestoreStatus(p, gunzipCode, ddCode) IN
    /\ app # "crashed"
    /\ p \in procs /\ p.kind = "dd" /\ p.op = "restore"
    /\ ClosesWith(p, ddCode)
    /\ (p.gz /\ Alive(p)) \/ gunzipCode = 0
    /\ IF code = 0
       THEN /\ AddLog(<<LogRestoreComplete>>)
            /\ SetState(p.run, STATES.COMPLETE)
            /\ UNCHANGED error
       ELSE /\ SetError(ErrRestoreFailed \o ErrorMsg(p.lastError, code))
            /\ SetState(p.run, STATES.ERROR)
            /\ UNCHANGED logs
    /\ procs' = procs \ {p}
    /\ lastEvent' = [Event(p, "close", code) EXCEPT !.gunzip = gunzipCode,
                                                   !.dd = ddCode]
    /\ UNCHANGED <<app, envVars, toolPresent, selectionVars, metricVars,
                   shrinkProgress, manualVars, runs, spawned, delivered>>

\* runRestore: ddProcess.on('error') (index.js:610-613)
DdErrorRestore(p) ==
    /\ app # "crashed"
    /\ p \in procs /\ p.kind = "dd" /\ p.op = "restore"
    /\ p.status = "spawnfail"
    /\ SetError(ErrStartRestore \o ErrMessage(p.kind))
    /\ SetState(p.run, STATES.ERROR)
    /\ procs' = (procs \ {p}) \cup {Errored(p)}
    /\ lastEvent' = Event(p, "error", 0)
    /\ UNCHANGED <<app, envVars, toolPresent, selectionVars, metricVars, logs,
                   shrinkProgress, manualVars, runs, spawned, delivered>>

-----------------------------------------------------------------------------
(* Handlers of the shrink stage *)

\* runPishrink: download.on('close') (index.js:480-487)
DownloadClose(p, code, started) ==
    /\ app # "crashed"
    /\ p \in procs /\ p.kind = "download"
    /\ ClosesWith(p, code)
    /\ IF code = 0
       THEN /\ RunShrink(p, procs \ {p}, <<>>, started)
            /\ UNCHANGED <<state, trail>>
       ELSE /\ AddLog(<<LogCouldNotDownload>>)
            /\ SetState(p.run, STATES.COMPLETE)
            /\ procs' = procs \ {p}
            /\ UNCHANGED spawned
    /\ lastEvent' = Event(p, "close", code)
    /\ UNCHANGED <<app, envVars, toolPresent, selectionVars, metricVars, error,
                   shrinkProgress, manualVars, runs, delivered>>

\* runPishrink: download has no 'error' listener (index.js:476-487): the
\* 'error' event of a failed spawn is thrown and ends the application
DownloadError(p) ==
    /\ app # "crashed"
    /\ p \in procs /\ p.kind = "download"
    /\ p.status = "spawnfail"
    /\ app' = "crashed"
    /\ procs' = (procs \ {p}) \cup {Errored(p)}
    /\ lastEvent' = Event(p, "error", 0)
    /\ UNCHANGED <<envVars, toolPresent, selectionVars, state, trail,
                   metricVars, error,
                   logs, shrinkProgress, manualVars, runs, spawned, delivered>>

\* A variant of PishrinkOutput that parses the bytes written as the copy does
PishrinkOutputParsing(p, chunk) ==
    /\ app # "crashed"
    /\ p \in procs /\ p.kind = "pishrink"
    /\ Alive(p)
    /\ IF Mounted
       THEN /\ shrinkProgress' = Substring(Trim(chunk), 0, 60)
            /\ bytesWritten' = NextBytesWritten(bytesWritten, chunk)
       ELSE UNCHANGED <<shrinkProgress, bytesWritten>>
    /\ AddLog(<<Substring(Trim(chunk), 0, 60)>>)
    /\ delivered' = delivered + 1
    /\ lastEvent' = Event(p, "output", 0)
    /\ UNCHANGED <<app, envVars, toolPresent, selectionVars, state, trail,
                   speed, error, manualVars, procs, runs, spawned>>

\* runShrink: pishrink.stdout.on('data'), pishrink.stderr.on('data')
\* (index.js:443-453)
PishrinkOutput(p, chunk) ==
    /\ app # "crashed"
    /\ p \in procs /\ p.kind = "pishrink"
    /\ Alive(p)
    /\ IF Mounted
       THEN shrinkProgress' = Substring(Trim(chunk), 0, 60)
       ELSE UNCHANGED shrinkProgress
    /\ AddLog(<<Substring(Trim(chunk), 0, 60)>>)
    /\ delivered' = delivered + 1
    /\ lastEvent' = Event(p, "output", 0)
    /\ UNCHANGED <<app, envVars, toolPresent, selectionVars, state, trail,
                   metricVars,
                   error, manualVars, procs, runs, spawned>>

\* A variant of PishrinkClose for which a non-zero exit code is fatal
PishrinkCloseStrict(p, code) ==
    /\ app # "crashed"
    /\ p \in procs /\ p.kind = "pishrink"
    /\ ClosesWith(p, code)
    /\ IF code = 0
       THEN /\ AddLog(<<LogShrinkComplete>>)
            /\ SetState(p.run, STATES.COMPLETE)
            /\ UNCHANGED error
       ELSE /\ SetError(LogPishrinkExited \o IntToString(code))
            /\ SetState(p.run, STATES.ERROR)
            /\ UNCHANGED logs
    /\ procs' = procs \ {p}
    /\ lastEvent' = Event(p, "close", code)
    /\ UNCHANGED <<app, envVars, toolPresent, selectionVars, metricVars,
                   shrinkProgress, manualVars, runs, spawned, delivered>>

\* runShrink: pishrink.on('close') (index.js:455-464)
PishrinkClose(p, code) ==
    /\ app # "crashed"
    /\ p \in procs /\ p.kind = "pishrink"
    /\ ClosesWith(p, code)
    /\ IF code = 0
       THEN /\ AddLog(<<LogShrinkComplete>>)
            /\ SetState(p.run, STATES.COMPLETE)
       ELSE /\ AddLog(<<LogPishrinkExited \o IntToString(code) \o LogSavedWithout>>)
            /\ SetState(p.run, STATES.COMPLETE)
    /\ procs' = procs \ {p}
    /\ lastEvent' = Event(p, "close", code)
    /\ UNCHANGED <<app, envVars, toolPresent, selectionVars, metricVars, error,
                   shrinkProgress, manualVars, runs, spawned, delivered>>

\* runShrink: pishrink.on('error') (index.js:466-469)
PishrinkError(p) ==
    /\ app # "crashed"
    /\ p \in procs /\ p.kind = "pishrink"
    /\ p.status = "spawnfail"
    /\ AddLog(<<LogPishrinkNotAvailable \o ErrMessage(p.kind) \o LogSavedWithout>>)
    /\ SetState(p.run, STATES.COMPLETE)
    /\ procs' = (procs \ {p}) \cup {Errored(p)}
    /\ lastEvent' = Event(p, "error", 0)
    /\ UNCHANGED <<app, envVars, toolPresent, selectionVars, metricVars, error,
                   shrinkProgress, manualVars, runs, spawned, delivered>>

-----------------------------------------------------------------------------
(* The specification *)

\* every selection the user can make
UserAction ==
    \/ \E item \in {"backup", "restore", "exit"} : MainMenuSelect(item)
    \/ \E path \in ImagePickerFiles : SelectSourceImage(path)
    \/ \E text \in ManualPaths : ManualSourceChange(text)
    \/ ManualSourceSubmit
    \/ \E i \in 1..Len(disks) : SelectSourceDisk(i)
    \/ \E i \in 1..Len(disks) : SelectDestDisk(i)
    \/ \E path \in BrowsedPaths : SelectDestFile(path)
    \/ \E item \in {"start", "back", "cancel"}, started \in BOOLEAN :
           ConfirmSelect(item, started)
    \/ \E item \in {"retry", "menu", "exit"} : ErrorSelect(item)
    \/ Quit

\* the exit codes a 'close' event can carry
Codes == ExitCodes \cup SpawnFailCodes

\* every 'close' and 'error' event of a child process
ChildEvent ==
    \/ \E p \in procs, code \in Codes, started \in BOOLEAN :
           SudoCheckCloseBackup(p, code, started)
    \/ \E p \in procs : SudoCheckErrorBackup(p)
    \/ \E p \in procs, code \in Codes, started \in BOOLEAN :
           SudoCheckCloseRestore(p, code, started)
    \/ \E p \in procs : SudoCheckErrorRestore(p)
    \/ \E p \in procs, code \in Codes, started \in BOOLEAN :
           UnmountCloseBackup(p, code, started)
    \/ \E p \in procs, started \in BOOLEAN : UnmountErrorBackup(p, started)
    \/ \E p \in procs, code \in Codes, started \in BOOLEAN :
           UnmountCloseRestore(p, code, started)
    \/ \E p \in procs, started \in BOOLEAN : UnmountErrorRestore(p, started)
    \/ \E p \in procs, code \in Codes, started \in BOOLEAN :
           CheckSourceClose(p, code, started)
    \/ \E p \in procs : CheckSourceError(p)
    \/ \E p \in procs, code \in Codes, started \in BOOLEAN, exists \in BOOLEAN :
           DdCloseBackup(p, code, started, exists)
    \/ \E p \in procs : DdErrorBackup(p)
    \/ \E p \in procs, code \in Codes, gunzipCode \in ExitCodes :
           DdCloseRestore(p, code, gunzipCode)
    \/ \E p \in procs : DdErrorRestore(p)
    \/ \E p \in procs, code \in Codes, started \in BOOLEAN :
           DownloadClose(p, code, started)
    \/ \E p \in procs : DownloadError(p)
    \/ \E p \in procs, code \in Codes : PishrinkClose(p, code)
    \/ \E p \in procs : PishrinkError(p)

\* every 'data' event of a child process, the stderr of the copy tool and
\* the output of pishrink drawn from chunks
ChildOutput(chunks) ==
    \/ \E p \in procs, chunk \in OutputChunks : UnmountStderrBackup(p, chunk)
    \/ \E p \in procs, chunk \in OutputChunks : UnmountStdoutBackup(p, chunk)
    \/ \E p \in procs, chunk \in chunks : DdStderr(p, chunk)
    \/ \E p \in procs, chunk \in OutputChunks : DdStdout(p, chunk)
    \/ \E p \in procs, chunk \in OutputChunks \cup chunks :
           PishrinkOutput(p, chunk)

\* The application: the user's selections and the events of the children, cut
\* off at MaxRuns runs, MaxProcs spawned processes and MaxChunks outputs
Next ==
    \/ UserAction /\ runs' <= MaxRuns /\ spawned' <= MaxProcs
    \/ ChildEvent /\ spawned' <= MaxProcs
    \/ delivered < MaxChunks /\ ChildOutput(PipelineChunks)

Spec == Init /\ [][Next]_vars

\* a copy subprocess has been started by some run
CopyEntered ==
    \E i \in 1..Len(trail) :
        trail[i][2] \in {STATES.BACKING_UP, STATES.RESTORING}

\* The copy stage in depth: the user makes selections until a copy is
\* started and then leaves the run alone; the stderr of the copy tool is
\* drawn from DdChunks. The children write while the application is
\* mounted; what their output does after exit() is part of Spec.
NextCopy ==
    \/ ~CopyEntered /\ UserAction /\ runs' <= MaxRuns /\ spawned' <= MaxProcs
    \/ ChildEvent /\ spawned' <= MaxProcs
    \/ delivered < MaxCopyChunks /\ Mounted /\ ChildOutput(DdChunks)

SpecCopy == Init /\ [][NextCopy]_vars

\* The progress parsing in depth: as NextCopy, the stderr of the copy tool
\* drawn from ProgressChunks
NextParse ==
    \/ ~CopyEntered /\ UserAction /\ runs' <= MaxRuns /\ spawned' <= MaxProcs
    \/ ChildEvent /\ spawned' <= MaxProcs
    \/ delivered < MaxChunks /\ Mounted /\ ChildOutput(ProgressChunks)

SpecParse == Init /\ [][NextParse]_vars

-----------------------------------------------------------------------------
(* Vocabulary of the properties.  lastEvent is the event whose handler *)
(* produced the current state.  The state, the failure reason, the log *)
(* and the metrics are those of the mounted application: a handler     *)
(* that runs after exit() spawns its children and updates none of      *)
(* them, so a property of what a handler displays is stated of         *)
(* Handled, a property of what it spawns of Fired.                     *)

\* the handler of event ev of a child of kind `kind` has just run
Fired(kind, ev) == lastEvent.kind = kind /\ lastEvent.ev = ev

\* the handler of event ev of a child of kind `kind` has just run in the
\* mounted application
Handled(kind, ev) == Mounted /\ Fired(kind, ev)

\* the child of the last event was a process that ran (its spawn succeeded)
Ran == lastEvent.status = "running"

\* the states the handlers of run r have set, in order
RunTrail(r) ==
    LET picked == KeepAt(trail, {i \in 1..Len(trail) : trail[i][1] = r})
    IN  [i \in 1..Len(picked) |-> picked[i][2]]

\* the children spawned by the step
Spawned == {q \in procs' : q.id > spawned}

\* the states in which an operation is active
ActiveStates ==
    {STATES.VALIDATING, STATES.BACKING_UP, STATES.RESTORING, STATES.SHRINKING}

-----------------------------------------------------------------------------
(* C1 *)

\* C1: every outcome of the shrink stage ends the run in COMPLETE: whenever
\* the close handler of the shrink tool has run (exit code 0 or not), or
\* its error handler (launch failure), or the close handler of the download
\* with a non-zero code (tool missing and download failed), the state is
\* COMPLETE; and no event of the shrink tool or of the download ever moves
\* the state to ERROR.
C1_ShrinkStageEndsComplete ==
    /\ [](/\ (Handled("pishrink", "close") \/ Handled("pishrink", "error"))
                => state = STATES.COMPLETE
          /\ (Handled("download", "close") /\ lastEvent.code # 0)
                => state = STATES.COMPLETE)
    /\ [][lastEvent'.kind \in {"pishrink", "download"}
            => (state' = STATES.ERROR => state = STATES.ERROR)]_vars

\* the shrink tool ran and exited with a non-zero code, and the run is
\* COMPLETE
C1_Witness ==
    /\ Handled("pishrink", "close") /\ Ran /\ lastEvent.code # 0
    /\ state = STATES.COMPLETE
    /\ error = <<>>

-----------------------------------------------------------------------------
(* C2 *)

\* C2: when the close handler of the copy subprocess has run with code 0
\* the state is SHRINKING in a Backup run and COMPLETE in a Restore run;
\* the state becomes SHRINKING only by that handler of a Backup copy
\* (never in a Restore run), and no event of a Backup copy sets COMPLETE.
C2_CopySuccessAdvances ==
    /\ []((Handled("dd", "close") /\ lastEvent.code = 0)
            => IF lastEvent.op = "backup"
               THEN state = STATES.SHRINKING
               ELSE state = STATES.COMPLETE)
    /\ [][(state' = STATES.SHRINKING /\ state # STATES.SHRINKING)
            => /\ lastEvent'.kind = "dd" /\ lastEvent'.op = "backup"
               /\ lastEvent'.ev = "close" /\ lastEvent'.code = 0]_vars
    /\ [][(lastEvent'.kind = "dd" /\ lastEvent'.op = "backup")
            => (state' = STATES.COMPLETE => state = STATES.COMPLETE)]_vars

\* a Restore copy ran, exited with code 0, and the run is COMPLETE
C2_Witness ==
    /\ Handled("dd", "close") /\ Ran /\ lastEvent.code = 0
    /\ lastEvent.op = "restore"
    /\ state = STATES.COMPLETE

-----------------------------------------------------------------------------
(* C3 and C4: the failure reason of the copy stage *)

\* the chunks the copy subprocess has written to stderr, joined
RECURSIVE Stream(_)
Stream(chunks) ==
    IF chunks = <<>> THEN <<>> ELSE Head(chunks) \o Stream(Tail(chunks))

\* the lines of text s, without their terminators
RECURSIVE LinesOf(_)
LinesOf(s) ==
    IF s = <<>> THEN <<>>
    ELSE LET ends == {i \in 1..Len(s) : s[i] = "\n"}
         IN  IF ends = {} THEN <<s>>
             ELSE LET e == CHOOSE x \in ends : \A y \in ends : x <= y
                  IN  <<SubSeq(s, 1, e - 1)>> \o LinesOf(SubSeq(s, e + 1, Len(s)))

\* the lines of s that are neither blank nor progress lines, trimmed
DiagnosticLines(s) ==
    LET lines == LinesOf(s)
        kept == KeepAt(lines, {i \in 1..Len(lines) :
                                 Trim(lines[i]) # <<>> /\ IsErrorOutput(lines[i])})
    IN  [i \in 1..Len(kept) |-> Trim(kept[i])]

\* the stderr of the copy subprocess was exactly one chunk holding exactly
\* one line, and that line is not a progress line
OneDiagnosticLine(seen) ==
    /\ Len(seen) = 1
    /\ Len(DiagnosticLines(seen[1])) = 1
    /\ \A i \in 1..Len(LinesOf(seen[1])) :
           i > 1 => Trim(LinesOf(seen[1])[i]) = <<>>

\* a copy subprocess that ran has exited with a non-zero code
CopyFailed == Handled("dd", "close") /\ Ran /\ lastEvent.code # 0

\* the prefix the close handler puts before the reason
ReasonPrefix == IF lastEvent.op = "backup" THEN ErrDdFailed ELSE ErrRestoreFailed

\* C3 (as amended): when the copy subprocess wrote exactly one non-progress
\* line L to stderr and then exited with a non-zero code, the state is ERROR
\* and the reason is the fixed prefix of the operation ("dd failed: " or
\* "Restore failed: ") followed by exactly L trimmed, not an exit-code
\* message.
C3_ReasonIsPrefixedLine ==
    (CopyFailed /\ OneDiagnosticLine(lastEvent.seen))
        => /\ state = STATES.ERROR
           /\ error = ReasonPrefix \o DiagnosticLines(lastEvent.seen[1])[1]
           /\ ~Includes(error, ErrExitCode)

\* C3 (as stated): in that case the reason is exactly L trimmed, nothing
\* added.
C3_ReasonIsExactlyLine ==
    (CopyFailed /\ OneDiagnosticLine(lastEvent.seen))
        => /\ state = STATES.ERROR
           /\ error = DiagnosticLines(lastEvent.seen[1])[1]

\* a Backup copy wrote the padded line, exited with code 1, and the run is
\* in ERROR
C3_Witness ==
    /\ CopyFailed /\ lastEvent.op = "backup"
    /\ lastEvent.seen = <<ChunkPadded>>
    /\ OneDiagnosticLine(lastEvent.seen)
    /\ state = STATES.ERROR

\* the reason the copy stage is to give for the stderr stream s and the
\* exit code: the last diagnostic line of s, the exit code when there is
\* none
ReasonOf(s, code) ==
    IF DiagnosticLines(s) # <<>>
    THEN DiagnosticLines(s)[Len(DiagnosticLines(s))]
    ELSE ErrExitCode \o IntToString(code)

\* C4: whatever the chunks, after a non-zero exit of the copy subprocess
\* the reason is the last non-progress line of the stderr stream, and the
\* exit code only when the stream holds no such line.
C4_ReasonIsLastDiagnosticLine ==
    CopyFailed
        => error = ReasonPrefix \o ReasonOf(Stream(lastEvent.seen), lastEvent.code)

-----------------------------------------------------------------------------
(* C5 *)

\* C5: when a privilege check that ran has exited with a non-zero code,
\* the states its run has set are VALIDATING and then ERROR and the reason
\* contains "authentication failed"; the handler spawned nothing and the
\* run has no subprocess, also when the application has exited by then;
\* and a subprocess other than a privilege check is only ever spawned by
\* the handler of an event of its own run, which is not a non-zero exit of
\* the privilege check.
C5_SudoFailureStopsRun ==
    /\ []((Handled("sudoCheck", "close") /\ Ran /\ lastEvent.code # 0)
            => /\ state = STATES.ERROR
               /\ RunTrail(lastEvent.run) = <<STATES.VALIDATING, STATES.ERROR>>
               /\ Includes(error, TxtAuthFailed))
    /\ []((Fired("sudoCheck", "close") /\ Ran /\ lastEvent.code # 0)
            => \A q \in procs : q.run # lastEvent.run)
    /\ [][\A q \in Spawned :
            \/ q.kind = "sudoCheck" /\ lastEvent'.kind = "user"
            \/ /\ q.kind # "sudoCheck"
               /\ lastEvent'.run = q.run
               /\ ~(lastEvent'.kind = "sudoCheck" /\ lastEvent'.code # 0)]_vars

\* the privilege check of a Restore run exited with code 1 and the run is
\* in ERROR
C5_Witness ==
    /\ Handled("sudoCheck", "close") /\ Ran /\ lastEvent.code # 0
    /\ lastEvent.op = "restore"
    /\ state = STATES.ERROR
    /\ procs = {}

-----------------------------------------------------------------------------
(* C6 *)

\* the copy subprocess or the source probe the last handler has spawned
SpawnedByLast(kind) ==
    \E q \in procs : q.id = spawned /\ q.kind = kind /\ q.run = lastEvent.run

\* C6 (as amended): whatever code the close event of the unmount carries,
\* its handler moves a Restore run to RESTORING with the copy spawned, and
\* in a Backup run it spawns the source probe without setting ERROR; the
\* Backup run is moved to BACKING_UP, with the copy spawned, by the close
\* handler of the probe when the probe exits with code 0, and to ERROR
\* when it does not. The children are spawned also when the application
\* has exited by then.
C6_UnmountNeverStopsRun ==
    /\ [](/\ (Handled("unmount", "close") /\ lastEvent.op = "restore")
                => state = STATES.RESTORING
          /\ (Fired("unmount", "close") /\ lastEvent.op = "restore")
                => SpawnedByLast("dd")
          /\ (Fired("unmount", "close") /\ lastEvent.op = "backup")
                => SpawnedByLast("checkSource")
          /\ (Handled("checkSource", "close") /\ lastEvent.code = 0)
                => state = STATES.BACKING_UP
          /\ (Fired("checkSource", "close") /\ lastEvent.code = 0)
                => SpawnedByLast("dd")
          /\ (Handled("checkSource", "close") /\ lastEvent.code # 0)
                => state = STATES.ERROR)
    /\ [][(lastEvent'.kind = "unmount" /\ lastEvent'.op = "backup")
            => state' = state /\ error' = error]_vars

\* a run through the unmount stage: the platform unmounts by identifier
\* and the path of the run holds one
Unmounts(src) == platform = "darwin" /\ DiskMatch(src) # <<>>

\* C6 (as stated): a Backup run that went through the unmount stage and has
\* no subprocess left has been in the copying state.
C6_AlwaysReachesCopying ==
    (/\ Mounted
     /\ lastEvent.kind = "checkSource" /\ Unmounts(lastEvent.src)
     /\ \A q \in procs : q.run # lastEvent.run)
        => \E i \in 1..Len(trail) :
               trail[i] = <<lastEvent.run, STATES.BACKING_UP>>

\* the unmount of a Restore run exited with code 1 and the run is in
\* RESTORING
C6_Witness ==
    /\ Handled("unmount", "close") /\ Ran /\ lastEvent.code # 0
    /\ lastEvent.op = "restore"
    /\ state = STATES.RESTORING

-----------------------------------------------------------------------------
(* C7 *)

\* C7: a Backup copy is spawned only by the close handler of a source
\* probe with code 0; after the close handler of a probe with a non-zero
\* code, or its error handler, the handler has spawned nothing and the
\* state of the mounted application is ERROR; a source probe is spawned
\* only by handlers of a Backup run.
C7_CopyOnlyAfterProbe ==
    /\ [][\A q \in Spawned :
            /\ (q.kind = "dd" /\ q.op = "backup")
                  => /\ lastEvent'.kind = "checkSource"
                     /\ lastEvent'.ev = "close" /\ lastEvent'.code = 0
                     /\ lastEvent'.run = q.run
            /\ q.kind = "checkSource"
                  => /\ lastEvent'.op = "backup"
                     /\ lastEvent'.kind \in {"sudoCheck", "unmount"}]_vars
    /\ [][(/\ lastEvent'.kind = "checkSource"
           /\ \/ lastEvent'.ev = "error"
              \/ lastEvent'.ev = "close" /\ lastEvent'.code # 0)
            => /\ Spawned = {}
               /\ Mounted' => state' = STATES.ERROR]_vars
    /\ [](\A q \in procs : q.kind = "checkSource" => q.op = "backup")

\* a source probe that ran exited with code 1: the run is in ERROR and has
\* no subprocess
C7_Witness ==
    /\ Handled("checkSource", "close") /\ Ran /\ lastEvent.code # 0
    /\ state = STATES.ERROR
    /\ procs = {}

-----------------------------------------------------------------------------
(* C8 *)

\* C8: the application is never left while a copy or shrink subprocess is
\* running unless the run has been moved to ERROR.
C8_NeverLeavesActiveCopy ==
    (app = "exited" /\ \E q \in procs :
                           q.kind \in {"dd", "download", "pishrink"} /\ Alive(q))
        => state = STATES.ERROR

-----------------------------------------------------------------------------
(* C9 *)

\* the runs of SpecStart, and the processes whose events it delivers
MaxStartRuns == 2
MaxStartProcs == 4

\* A second start: the user acts in every state and may start a second run
\* whenever the application lets them, so that no start in a state of the
\* first run is cut off; the children of the first run deliver their
\* events, the second run stays where its start has put it
NextStart ==
    \/ UserAction /\ runs' <= MaxStartRuns
    \/ ChildEvent /\ spawned' <= MaxStartProcs /\ lastEvent'.run = 1

SpecStart == Init /\ [][NextStart]_vars

\* C9: a run, the first and every later one, is started only by a selection
\* of the user in state CONFIRM, and while the state is VALIDATING,
\* BACKING_UP, RESTORING or SHRINKING a selection or key of the user starts
\* no run, spawns nothing and leaves the state and the selections of the
\* operation as they are.
C9_OneOperationAtATime ==
    /\ [][runs' # runs
            => /\ state = STATES.CONFIRM /\ lastEvent'.kind = "user"
               /\ runs' = runs + 1 /\ state' = STATES.VALIDATING]_vars
    /\ [][(lastEvent'.kind = "user" /\ state \in ActiveStates)
            => /\ runs' = runs /\ procs' = procs
               /\ state' = state
               /\ <<mode, source, destination>>' = <<mode, source, destination>>]_vars

\* the first run has been through its copy stage and has ended, and the
\* user has started a second run, which is being validated
C9_Witness ==
    /\ state = STATES.VALIDATING
    /\ lastEvent.kind = "user"
    /\ runs = 2
    /\ \E q \in procs : q.kind = "sudoCheck" /\ q.run = 2
    /\ \E i, j \in 1..Len(trail) :
           /\ i < j
           /\ trail[i][1] = 1 /\ trail[i][2] \in ActiveStates \ {STATES.VALIDATING}
           /\ trail[j][1] = 1 /\ trail[j][2] \in {STATES.COMPLETE, STATES.ERROR}

-----------------------------------------------------------------------------
(* C10 *)

\* C10: at most one subprocess of the application is alive at any time.
C10_OneSubprocessAlive ==
    Cardinality({q \in procs : Alive(q)}) <= 1

-----------------------------------------------------------------------------
(* The pipeline in depth *)

\* the processes a run may spawn in SpecPipeline.  A run whose unmount fails
\* to start spawns ten: the privilege check, the unmount, and two each of
\* the probe, dd, the download and pishrink.
MaxPipelineProcs == 10

\* the events of the children in SpecPipeline
PipelineEvent == ChildEvent /\ spawned' <= MaxPipelineProcs

\* The pipeline in depth: the user makes selections until a copy is started
\* and then leaves the run alone
NextPipeline ==
    \/ ~CopyEntered /\ UserAction /\ runs' <= MaxRuns
                    /\ spawned' <= MaxPipelineProcs
    \/ PipelineEvent
    \/ delivered < MaxChunks /\ ChildOutput(PipelineChunks)

SpecPipeline == Init /\ [][NextPipeline]_vars

\* The pipeline when every child that has an event to deliver delivers it
SpecLive == Init /\ [][NextPipeline]_vars /\ WF_vars(PipelineEvent)

-----------------------------------------------------------------------------
(* C11 *)

\* C11: the copy process of a Restore whose source the image picker offers
\* is the decompressing pipeline exactly when the picker took the source for
\* a compressed image, that is when its name ends in .img.gz in any case
C11_CompressedSourceIsPiped ==
    \A p \in procs :
        (p.kind = "dd" /\ p.op = "restore" /\ p.src \in ImagePickerFiles)
            => (p.gz <=> EndsWith(ToLower(p.src),
                                  <<".", "i", "m", "g", ".", "g", "z">>))

-----------------------------------------------------------------------------
(* C12 *)

\* C12: when the copy process of a compressed Restore closes, the state is
\* COMPLETE exactly when dd exited with 0, whatever gunzip exited with
C12_CompressedRestoreFollowsDd ==
    (Handled("dd", "close") /\ lastEvent.op = "restore" /\ lastEvent.gz /\ Ran)
        => (state = STATES.COMPLETE <=> lastEvent.dd = 0)

\* a compressed Restore is COMPLETE although gunzip failed
C12_Witness ==
    /\ Handled("dd", "close") /\ lastEvent.op = "restore" /\ lastEvent.gz /\ Ran
    /\ lastEvent.gunzip # 0 /\ lastEvent.dd = 0
    /\ state = STATES.COMPLETE

-----------------------------------------------------------------------------
(* C13 *)

\* C13: the 'error' event of every child has a handler: after it the
\* process has not crashed, and the state of the mounted application is
\* ERROR for the privilege check and the copy, COMPLETE for pishrink and
\* its download
C13_LaunchFailureIsHandled ==
    lastEvent.ev = "error"
        => /\ app # "crashed"
           /\ (Mounted /\ lastEvent.kind \in {"sudoCheck", "dd"})
                  => state = STATES.ERROR
           /\ (Mounted /\ lastEvent.kind \in {"pishrink", "download"})
                  => state = STATES.COMPLETE

-----------------------------------------------------------------------------
(* C14 *)

\* C14: when the 'close' event of a copy process that failed to start has
\* been handled, the reason shown is still the one of the failed start
C14_LaunchFailureReasonStays ==
    (Handled("dd", "close") /\ lastEvent.status = "errored"
                            /\ state = STATES.ERROR)
        => error \in {ErrStartDd \o ErrMessage("dd"),
                      ErrStartRestore \o ErrMessage("dd")}

-----------------------------------------------------------------------------
(* C15 *)

\* C15: the state never changes from SHRINKING to ERROR
C15_NeverShrinkingToError ==
    [][~(state = STATES.SHRINKING /\ state' = STATES.ERROR)]_vars

-----------------------------------------------------------------------------
(* C16 *)

\* C16: a run that is in VALIDATING, BACKING_UP, RESTORING or SHRINKING
\* reaches COMPLETE or ERROR, unless the user quits, when every child
\* delivers its events
C16_RunEnds ==
    (state \in ActiveStates)
        ~> (state \in {STATES.COMPLETE, STATES.ERROR} \/ app = "exited")

-----------------------------------------------------------------------------
(* C17 *)

\* C17: whenever the state is ERROR the failure reason is not empty
C17_ErrorHasReason == state = STATES.ERROR => error # <<>>

\* a failed copy has put the application in ERROR
C17_Witness ==
    /\ state = STATES.ERROR
    /\ Handled("dd", "close") /\ Ran /\ lastEvent.code # 0

-----------------------------------------------------------------------------
(* C18 *)

\* C18: a selection of the user in ERROR is one of three: retry (to
\* SELECT_SOURCE, the reason cleared, mode, source and destination kept),
\* main menu (to MAIN_MENU, reason, source, destination and mode cleared),
\* or exit (the application ends); none of them spawns a process
C18_ErrorOffersThree ==
    [][(state = STATES.ERROR /\ lastEvent'.kind = "user")
         => /\ procs' = procs /\ spawned' = spawned /\ runs' = runs
            /\ \/ /\ state' = STATES.SELECT_SOURCE
                  /\ error' = <<>>
                  /\ UNCHANGED <<mode, source, destination, app>>
               \/ /\ state' = STATES.MAIN_MENU
                  /\ error' = <<>> /\ source' = <<>> /\ destination' = <<>>
                  /\ mode' = NoMode
                  /\ UNCHANGED app
               \/ /\ app' = "exited"
                  /\ UNCHANGED <<state, error, mode, source, destination>>]_vars

\* the user has chosen retry after a failed run: the selections are kept
C18_Witness ==
    /\ lastEvent.kind = "user" /\ runs > 0 /\ app = "mounted"
    /\ state = STATES.SELECT_SOURCE
    /\ error = <<>> /\ mode # NoMode /\ source # <<>> /\ destination # <<>>

-----------------------------------------------------------------------------
(* C19 *)

\* C19: no event of a child changes the state once it is COMPLETE, and no
\* event of a child of the run that set ERROR changes the state from ERROR
C19_TerminalStatesStay ==
    [][lastEvent'.kind # "user"
         => /\ state = STATES.COMPLETE => state' = STATES.COMPLETE
            /\ (state = STATES.ERROR /\ lastEvent'.run = trail[Len(trail)][1])
                   => state' = STATES.ERROR]_vars

-----------------------------------------------------------------------------
(* C20 *)

\* the place of a state in the pipeline; 0 for a state outside it
Rank(s) ==
    CASE s = STATES.VALIDATING -> 1
      [] s \in {STATES.BACKING_UP, STATES.RESTORING} -> 2
      [] s = STATES.SHRINKING -> 3
      [] s = STATES.COMPLETE -> 4
      [] OTHER -> 0

\* t visits the states of `stages` in that order before position j
VisitedBefore(t, j, stages) ==
    \E at \in [1..Len(stages) -> 1..Len(t)] :
        /\ \A k \in 1..Len(stages) : at[k] < j /\ t[at[k]] = stages[k]
        /\ \A k \in 1..(Len(stages) - 1) : at[k] < at[k + 1]

\* C20: the pipeline states a run sets never go back, and a handler sets
\* COMPLETE only after its run has set VALIDATING, BACKING_UP and SHRINKING
\* in that order (Backup) or VALIDATING and RESTORING (Restore)
C20_PipelineOrder ==
    /\ \A r \in 1..runs :
         LET t == RunTrail(r) IN
         \A i, j \in 1..Len(t) :
             (i < j /\ Rank(t[i]) > 0 /\ Rank(t[j]) > 0)
                 => Rank(t[i]) <= Rank(t[j])
    /\ (Mounted /\ lastEvent.kind \notin {"user", "none"}
                 /\ state = STATES.COMPLETE)
         => LET t == RunTrail(lastEvent.run) IN
            VisitedBefore(t, Len(t),
                IF lastEvent.op = "backup"
                THEN <<STATES.VALIDATING, STATES.BACKING_UP, STATES.SHRINKING>>
                ELSE <<STATES.VALIDATING, STATES.RESTORING>>)

-----------------------------------------------------------------------------
(* Runs one after another *)

\* the runs of SpecRetry and the processes they may spawn together
MaxRetryRuns == 2
MaxRetryProcs == 6

\* Runs one after another: the user makes a selection only when no child
\* has an event left to deliver
NextRetry ==
    \/ procs = {} /\ UserAction /\ runs' <= MaxRetryRuns
                  /\ spawned' <= MaxRetryProcs
    \/ ChildEvent /\ spawned' <= MaxRetryProcs
    \/ delivered < MaxChunks /\ ChildOutput(PipelineChunks)

SpecRetry == Init /\ [][NextRetry]_vars

-----------------------------------------------------------------------------
(* C21 *)

\* the step starts a run
RunStarts == runs' > runs

\* the step enters the copy stage of a run for the first time
CopyStarts ==
    /\ Len(trail') > Len(trail)
    /\ LET set == trail'[Len(trail')] IN
       /\ set[2] \in {STATES.BACKING_UP, STATES.RESTORING}
       /\ \A i \in 1..Len(trail) :
              trail[i][1] = set[1]
                  => trail[i][2] \notin {STATES.BACKING_UP, STATES.RESTORING}

\* C21: when a run starts and when it enters its copy stage the metrics have
\* their initial values
C21_MetricsResetAtStart ==
    [][(RunStarts \/ CopyStarts)
         => bytesWritten' = <<"0">> /\ speed' = <<"0">>]_vars

-----------------------------------------------------------------------------
(* C22 *)

\* the number of tenths of a megabyte that a metric text shows
Tenths(text) ==
    ParseInt(KeepAt(text, {i \in 1..Len(text) : text[i] \in Digits}))

\* C22: a stderr chunk that follows another chunk of the same copy process
\* does not lower the bytes written
C22_BytesNeverDecrease ==
    [][(/\ lastEvent.kind = "dd" /\ lastEvent.ev = "stderr"
        /\ lastEvent'.kind = "dd" /\ lastEvent'.ev = "stderr"
        /\ lastEvent'.id = lastEvent.id)
         => Tenths(bytesWritten') >= Tenths(bytesWritten)]_vars

-----------------------------------------------------------------------------
(* C23 *)

\* C23: no event of pishrink or of its download changes the bytes written
\* or the transfer rate
C23_ShrinkKeepsMetrics ==
    [][lastEvent'.kind \in {"pishrink", "download"}
         => UNCHANGED <<bytesWritten, speed>>]_vars

\* pishrink has printed what looks like a progress line of the copy tool and
\* the bytes written are as the copy stage left them
C23_Witness ==
    /\ Handled("pishrink", "output")
    /\ shrinkProgress = Substring(Trim(ChunkProgress), 0, 60)
    /\ bytesWritten = <<"0">>

-----------------------------------------------------------------------------
(* C24 *)

\* the last n entries of seq
LastOf(seq, n) == SubSeq(seq, Len(seq) - Min(n, Len(seq)) + 1, Len(seq))

\* C24: the log never holds more than 6 entries, and a step that logs k
\* messages (a handler logs at most 3) leaves the last 6 of the old entries
\* followed by the k new ones
C24_LogKeepsLastSix ==
    [][logs' # logs
         => /\ Len(logs') <= 6
            /\ \E k \in 1..3 :
                 /\ k <= Len(logs')
                 /\ logs' = LastOf(logs \o LastOf(logs', k), 6)]_vars

\* the log is full and its first message, 'Validating...', has been evicted
C24_Witness ==
    /\ runs = 1 /\ Len(logs) = 6
    /\ \A i \in 1..Len(logs) : logs[i] # LogValidating

-----------------------------------------------------------------------------
(* C25 *)

\* C25: while a run is active its children use the mode, source and
\* destination that the application holds, and when a handler of a Backup
\* run has set COMPLETE the destination shown is the one its children used
C25_RunKeepsSelections ==
    /\ state \in ActiveStates
         => \A p \in procs :
                p.run = trail[Len(trail)][1]
                    => /\ p.src = source /\ p.dst = destination
                       /\ mode = (IF p.op = "backup" THEN MODES.BACKUP
                                                     ELSE MODES.RESTORE)
    /\ (state = STATES.COMPLETE /\ lastEvent.op = "backup")
         => destination = lastEvent.dst

-----------------------------------------------------------------------------
(* C26 *)

\* the device of a child's run: the source of a Backup, the destination of
\* a Restore
DeviceOf(p) == IF p.op = "backup" THEN p.src ELSE p.dst

\* C26: the close handler of a privilege check that exited with 0 spawns
\* the unmount exactly when the platform is darwin and the device path holds
\* a disk identifier, and spawns the next stage (the probe of a Backup, the
\* copy of a Restore) otherwise, also when the application has exited by
\* then; every unmount was spawned in that case
C26_UnmountOnlyByIdentifier ==
    /\ (Fired("sudoCheck", "close") /\ Ran /\ lastEvent.code = 0)
         => /\ SpawnedByLast("unmount") <=> Unmounts(DeviceOf(lastEvent))
            /\ ~Unmounts(DeviceOf(lastEvent))
                 => SpawnedByLast(IF lastEvent.op = "backup"
                                  THEN "checkSource" ELSE "dd")
    /\ \A p \in procs : p.kind = "unmount" => Unmounts(DeviceOf(p))

\* on linux a device path that holds a disk identifier is not unmounted
C26_Witness ==
    /\ Handled("sudoCheck", "close") /\ Ran /\ lastEvent.code = 0
    /\ platform = "linux" /\ DiskMatch(lastEvent.src) # <<>>
    /\ SpawnedByLast("checkSource")

-----------------------------------------------------------------------------
(* C27 *)

\* the step spawns a child of kind `kind`
Spawns(kind) == \E q \in Spawned : q.kind = kind

\* C27: a download is spawned only in a run that has none; the close handler
\* of a copy that exited with 0 spawns the download exactly when the shrink
\* tool is absent and pishrink when it is present; the close handler of a
\* download spawns pishrink when the download exited with 0 and, when it
\* did not, spawns nothing and sets COMPLETE in the mounted application
C27_DownloadOnceIfAbsent ==
    [][/\ \A q \in Spawned :
             q.kind = "download"
                 => \A p \in procs : ~(p.kind = "download" /\ p.run = q.run)
       /\ (/\ lastEvent'.kind = "dd" /\ lastEvent'.ev = "close"
           /\ lastEvent'.op = "backup" /\ lastEvent'.code = 0)
            => /\ Spawns("download") <=> ~toolPresent'
               /\ Spawns("pishrink") <=> toolPresent'
       /\ (lastEvent'.kind = "download" /\ lastEvent'.ev = "close")
            => IF lastEvent'.code = 0
               THEN Spawns("pishrink")
               ELSE /\ Spawned = {}
                    /\ Mounted' => state' = STATES.COMPLETE
       /\ (Spawns("download") \/ Spawns("pishrink"))
            => lastEvent'.kind \in {"dd", "download"}]_vars

-----------------------------------------------------------------------------
(* C28 *)

\* the step handles a failure of an unmount: its 'error' event or a 'close'
\* event with a non-zero code
UnmountFails ==
    /\ lastEvent'.kind = "unmount"
    /\ \/ lastEvent'.ev = "error"
       \/ lastEvent'.ev = "close" /\ lastEvent'.code # 0

\* the log holds an entry that starts with 'Unmount ': a warning or a skip
UnmountLogged(log) ==
    \E i \in 1..Len(log) :
        MatchAt(log[i], <<"U", "n", "m", "o", "u", "n", "t", " ">>, 1)

\* the step has appended at most 3 entries, one of them about the unmount
UnmountEntryAppended ==
    \E k \in 1..3 :
        /\ k <= Len(logs')
        /\ logs' = LastOf(logs \o LastOf(logs', k), 6)
        /\ UnmountLogged(LastOf(logs', k))

\* C28: in Backup and in Restore the handler of a failure of an unmount
\* spawns the next stage and changes neither the failure reason nor the
\* state to ERROR. A failure to launch is delivered as 'error' and then as
\* 'close' with a non-zero code; every 'close' with a non-zero code appends
\* a warning to the log of the mounted application, and after an 'error'
\* that 'close' is still to come
C28_UnmountFailureNeverStops ==
    [][/\ UnmountFails
            => /\ Spawned # {}
               /\ error' = error
               /\ state' = STATES.ERROR => state = STATES.ERROR
               /\ (Mounted' /\ lastEvent'.ev = "close") => UnmountEntryAppended
               /\ lastEvent'.ev = "error"
                    => \E q \in procs' :
                           q.id = lastEvent'.id /\ q.status = "errored"
       /\ (/\ lastEvent'.kind = "unmount" /\ lastEvent'.ev = "close"
           /\ lastEvent'.status = "errored") => lastEvent'.code # 0]_vars

\* the unmount of a Restore failed to start and the handler of its 'close'
\* event has logged the warning
C28_Witness ==
    /\ Handled("unmount", "close") /\ lastEvent.status = "errored"
    /\ lastEvent.op = "restore"
    /\ \E i \in 1..Len(logs) : logs[i] = LogUnmountWarningRestore

-----------------------------------------------------------------------------
(* C29 *)

\* C29: when the enumeration throws, getDisks returns one entry whose device
\* path is empty, on every platform and whatever the listing would have held;
\* and the selection of an entry with an empty device path, in the list of
\* sources or of targets, changes neither the state nor the source nor the
\* destination
C29_SentinelIsInert ==
    /\ \A plat \in Platforms : \A listing \in Listings(plat) :
           /\ Len(GetDisks(plat, listing, TRUE)) = 1
           /\ GetDisks(plat, listing, TRUE)[1] = <<>>
    /\ [][lastEvent'.kind = "user" /\ lastEvent'.ev = "emptyItem"
            => UNCHANGED <<state, source, destination, showManualInput>>]_vars

\* the list is the one of a failed enumeration and the user has selected its
\* sentinel as the target of a Restore
C29_Witness ==
    /\ disks = LoadDisks(GetDisks(platform, <<>>, TRUE))
    /\ lastEvent.kind = "user" /\ lastEvent.ev = "emptyItem"
    /\ mode = MODES.RESTORE
    /\ state = STATES.SELECT_DEST
    /\ destination = <<>>

-----------------------------------------------------------------------------
(* C30 *)

\* path is the raw device of the disk it names: /dev/r<disk>
IsRawDevice(path) ==
    DiskMatch(path) # <<>> /\ path = TxtDevR \o DiskMatch(path)

\* C30: on darwin every device of the list has the raw path /dev/r<disk>,
\* never the buffered /dev/<disk>, and no disk occurs twice
C30_DarwinDevicesAreRaw ==
    platform = "darwin"
      => \A i \in 1..Len(disks) :
             \/ disks[i] \in {<<>>, TxtManual}
             \/ /\ IsRawDevice(disks[i])
                /\ disks[i] # TxtDev \o DiskMatch(disks[i])
                /\ \A j \in 1..Len(disks) :
                       DiskMatch(disks[j]) = DiskMatch(disks[i]) => j = i

\* the listing names a disk twice and its info query fails; the list holds
\* its raw device once
C30_Witness ==
    /\ platform = "darwin"
    /\ \E listing \in Listings("darwin") :
           /\ Len(listing) > 1
           /\ listing[1].name = listing[2].name
           /\ ~listing[1].info
           /\ disks = LoadDisks(GetDisks("darwin", listing, FALSE))
    /\ Len(disks) = 2
    /\ IsRawDevice(disks[1])

-----------------------------------------------------------------------------
(* C31 *)

\* C31: the list of devices ends with the manual entry, and once the user has
\* chosen it, as the source of a Backup or as the target of a Restore, the
\* text input of the device path is shown; the path submitted there is
\* recorded as the source and the selection proceeds to the next step
C31_ManualEntryAvailable ==
    /\ Len(disks) > 0 /\ disks[Len(disks)] = TxtManual
    /\ [][/\ (lastEvent'.kind = "user" /\ lastEvent'.ev = "manualItem")
               => ManualInputShown'
          /\ (ManualInputShown /\ lastEvent'.kind = "user"
              /\ state' # state /\ app' = app)
               => source' = manualSource /\ state' = STATES.SELECT_DEST]_vars

-----------------------------------------------------------------------------
(* C32 *)

\* the chunk that the stderr handler of the copy tool has just parsed
ParsedChunk ==
    LET q == CHOOSE q \in procs' : q.id = lastEvent'.id
    IN  q.seen[Len(q.seen)]

\* the step is the stderr handler of a copy subprocess
ParsesChunk ==
    /\ lastEvent'.kind = "dd" /\ lastEvent'.ev = "stderr"
    /\ \E q \in procs' : q.id = lastEvent'.id /\ Len(q.seen) > 0

\* C32: for every chunk '<N> bytes ... copied ... <R> MB/s' the stderr handler
\* of the copy tool, run in the mounted application, sets the bytes written
\* to the megabytes of N and the transfer rate to a text that contains R
C32_ProgressIsExtracted ==
    [][(ParsesChunk /\ Mounted')
         => \A count \in ByteCounts, sizes \in SizeTexts, rate \in Rates :
              ParsedChunk = ProgressLine(count, sizes, rate, <<"M", "B", "/", "s">>)
                => /\ BytesMatch(ParsedChunk) = count
                   /\ bytesWritten' = MbText(ParseInt(count)) \o TxtMB
                   /\ \E i \in 1..Len(speed') : MatchAt(speed', rate, i)]_vars

\* the handler has parsed the progress line of 3670016 bytes, with the sizes
\* in parentheses, at 105 MB/s
C32_Witness ==
    /\ Handled("dd", "stderr")
    /\ \E q \in procs :
          /\ q.id = lastEvent.id /\ Len(q.seen) > 0
          /\ \E sizes \in SizeTexts \ {<<>>} :
                q.seen[Len(q.seen)] =
                  ProgressLine(<<"3", "6", "7", "0", "0", "1", "6">>, sizes,
                               <<"1", "0", "5">>, <<"M", "B", "/", "s">>)
    /\ bytesWritten = <<"3", ".", "5", " ", "M", "B">>
    /\ speed = <<"1", "0", "5", " ", "M", "B", "/", "s">>

-----------------------------------------------------------------------------
(* C34 *)

\* C34: for each rate unit the copy tool prints (B/s, kB/s, MB/s, GB/s) the
\* stderr handler, run in the mounted application, sets the transfer rate
\* to the number and the unit of the progress line
C34_EveryUnitIsExtracted ==
    [][(ParsesChunk /\ Mounted')
         => \A count \in ByteCounts, sizes \in SizeTexts, rate \in Rates,
               unit \in RateUnits :
              ParsedChunk = ProgressLine(count, sizes, rate, unit)
                => speed' = rate \o <<" ">> \o unit]_vars

-----------------------------------------------------------------------------
(* C33 *)

\* chunk holds a record count: 'records in' or 'records out'
HasRecordCount(chunk) ==
    \E i \in 1..Len(chunk) :
        \/ MatchAt(chunk, <<"r", "e", "c", "o", "r", "d", "s", " ", "i", "n">>, i)
        \/ MatchAt(chunk, <<"r", "e", "c", "o", "r", "d", "s", " ", "o", "u", "t">>, i)

\* C33: a stderr chunk with a record count ('N+M records in', 'records out')
\* is not taken as an error line: the handler leaves the retained last-error
\* text of the copy subprocess as it was
C33_RecordCountIsNoError ==
    [][(ParsesChunk /\ HasRecordCount(ParsedChunk))
         => \A q \in procs' :
               q.id = lastEvent'.id => q.lastError = lastEvent'.lastError]_vars

\* the copy tool has printed an error line and then a record count, and the
\* error line is still the retained text
C33_Witness ==
    /\ Handled("dd", "stderr")
    /\ \E q \in procs :
          /\ q.id = lastEvent.id /\ Len(q.seen) = 2
          /\ q.seen[1] = ChunkError
          /\ q.seen[2] = ChunkRecords
          /\ ~MatchBytesCopied(q.seen[2])
          /\ q.lastError = Trim(ChunkError)

-----------------------------------------------------------------------------
(* C35 *)

\* C35: in every state of the running application, the text input of the
\* device path and the states with a running subprocess included, the key q
\* is handled and ends the application
C35_QuitEverywhere ==
    Mounted => ENABLED (Quit /\ app' = "exited")

\* the application was ended by a key while the copy subprocess was running
C35_Witness ==
    /\ app = "exited"
    /\ lastEvent.kind = "user"
    /\ state = STATES.BACKING_UP
    /\ \E p \in procs : p.kind = "dd" /\ Alive(p)

-----------------------------------------------------------------------------
(* C36 *)

\* C36: no step spawns a copy subprocess for a run that has entered its copy
\* stage before, and the 'close' event of an unmount whose 'error' event was
\* handled before spawns no further probe of the source
C36_CopySpawnedOnce ==
    [][\A q \in Spawned :
          /\ q.kind = "dd"
               => ~\E i \in 1..Len(trail) :
                      /\ trail[i][1] = q.run
                      /\ trail[i][2] \in {STATES.BACKING_UP, STATES.RESTORING}
          /\ q.kind = "checkSource"
               => ~(/\ lastEvent'.kind = "unmount" /\ lastEvent'.ev = "close"
                    /\ lastEvent'.status = "errored")]_vars

-----------------------------------------------------------------------------
(* C37 *)

\* C37: whenever the state is COMPLETE or ERROR no subprocess of a run is
\* alive, so none is left to deliver an event to a later run
C37_NoChildAtTheEnd ==
    state \in {STATES.COMPLETE, STATES.ERROR}
      => ~\E p \in procs : Alive(p)

-----------------------------------------------------------------------------
(* C38 *)

\* C38: every copy subprocess, of a Backup, of a plain Restore and of a
\* compressed Restore, is started with the flags of the platform: bs=4m on
\* darwin, bs=4M and conv=fsync elsewhere
C38_FlagsFollowPlatform ==
    \A p \in procs :
        p.kind = "dd"
          => DdFlags(p) = IF platform = "darwin"
                          THEN {"bs=4m", "status=progress"}
                          ELSE {"bs=4M", "status=progress", "conv=fsync"}

-----------------------------------------------------------------------------
(* C39 *)

\* C39: a step that starts a run (validateAndBackup, validateAndRestore)
\* finds a source and a destination that are not empty
C39_RunHasSourceAndDestination ==
    [][RunStarts => source # <<>> /\ destination # <<>>]_vars

-----------------------------------------------------------------------------
(* C40 *)

\* the last-error text a copy stage retains after the chunks of seen, from
\* the empty text it starts with
RECURSIVE Retained(_)
Retained(seen) ==
    IF seen = <<>> THEN <<>>
    ELSE NextLastError(Retained(SubSeq(seen, 1, Len(seen) - 1)), seen[Len(seen)])

\* C40: every copy subprocess starts with an empty last-error text, and the
\* reason its non-zero exit sets is built from the stderr chunks of that
\* subprocess alone: the text retained from them, or the exit code
C40_ReasonFromOwnOutput ==
    [][/\ \A q \in Spawned : q.kind = "dd" => q.lastError = <<>>
       /\ CopyFailed'
            => error' = ReasonPrefix' \o
                          (IF Retained(lastEvent'.seen) # <<>>
                           THEN Retained(lastEvent'.seen)
                           ELSE ErrExitCode \o IntToString(lastEvent'.code))]_vars

\* the copy of the first run printed an error line and failed; the copy of
\* the second run failed without output and its reason is the exit code
C40_Witness ==
    /\ CopyFailed
    /\ lastEvent.run = 2
    /\ lastEvent.seen = <<>>
    /\ \E i \in 1..Len(logs) : logs[i] = Trim(ChunkError)
    /\ state = STATES.ERROR
    /\ error = ReasonPrefix \o ErrExitCode \o IntToString(lastEvent.code)
=============================================================================
